---- MODULE Spec2Model ----
(***************************************************************************)
(* Model of the price-search engine of bahn.vibe:                          *)
(*   - GlobalRateLimiter (src/app/api/search-prices/route.ts:18-187)       *)
(*   - the result cache (route.ts:231-323)                                 *)
(*   - getBestPrice (route.ts:390-801)                                     *)
(* Time is the value of Date.now() in milliseconds.  Every macrotask of    *)
(* the JavaScript event loop (a timer callback, the arrival of an upstream *)
(* response together with the promise continuations it triggers, the       *)
(* synchronous prefix of getBestPrice) is one action.                      *)
(***************************************************************************)
EXTENDS Integers, Sequences, FiniteSets, TLC

\* ---------------------------------------------------------------- bounds
\* number of getBestPrice invocations in a behaviour
NumFetches == 3
\* number of distinct fingerprints (cache keys)
NumKeys == 3
\* cap on the rate-limit rejections the upstream hands out in a behaviour
\* (rateLimitHits is unbounded in the code)
MaxRateLimitHits == 4
\* cap on the number of clock advances in a behaviour
MaxTicks == 3
\* capacity of the cache; the program's value is 100000 (route.ts:242),
\* scaled down so that the capacity is reached
MAX_CACHE_ENTRIES == 2

Fetches == 1..NumFetches
Keys == 1..NumKeys

\* ------------------------------------------------------ program constants
baseInterval == 1000
maxInterval == 10000
maxConcurrentRequests_2 == 1 + 1
maxConcurrentRequests == 1
maxRetries == 3
CACHE_TTL == 3600000
\* period of the setInterval callbacks
SweepPeriod == 5 * 60 * 1000
ERROR_TTL == 60000
\* Date.now() at the first request; lastApiCallStart = 0 lies far in the past
StartTime == 10000
\* clock advances offered to the model: the retry backoff, the error ttl, the
\* standard ttl (an entry is expired two seconds after its ttl has passed)
TickSteps == {2000, ERROR_TTL, CACHE_TTL}

NoTimer == -1
NoKey == 0

Max(a, b) == IF a >= b THEN a ELSE b
Min(a, b) == IF a <= b THEN a ELSE b

\* ----------------------------------------------------- upstream responses
\* body of an HTTP 200 answer of the pricing endpoint, by the case
\* getBestPrice distinguishes; "intervalle" carries the id of an interval set
OkBodies ==
  { [kind |-> "noprice", resp |-> 0],
    [kind |-> "notjson", resp |-> 0],
    [kind |-> "nointervalle", resp |-> 0],
    [kind |-> "intervalle", resp |-> 1] }

\* messages of the errors the queued call can throw, as token sequences:
\* `HTTP ${status}: ${errorText}` (route.ts:546) or a transport failure
ErrorMessages ==
  { <<"HTTP", "429", "Too Many Requests">>,
    <<"fetch failed">> }

Outcomes ==
  { [ok |-> TRUE, body |-> b, msg |-> <<>>] : b \in OkBodies } \cup
  { [ok |-> FALSE, body |-> [kind |-> "none", resp |-> 0], msg |-> m] : m \in ErrorMessages }

IsRateLimitError_any(msg) == TRUE
\* error.message.includes('429') || error.message.includes('Too Many Requests')
IsRateLimitError(msg) ==
  \E i \in 1..Len(msg) : msg[i] \in {"429", "Too Many Requests"}

VARIABLES
  now,                \* Date.now()
  ticks,              \* number of clock advances so far
  queue,              \* GlobalRateLimiter.queue: the calls, by fetch id
  lastApiCallStart,
  minInterval,
  activeRequests,
  rateLimitHits,
  successfulRequests,
  processingTimer,    \* fire time of the pending processing timer, or NoTimer
  retryTimers,        \* pending re-queue timeouts: [req, fireAt]
  inflight,           \* calls whose upstream request is executing
  cache,              \* the Map, in insertion order: [key, data, timestamp, ttl]
  pc,                 \* per fetch: idle, queued, running, backoff, done
  fkey,               \* per fetch: its cache key
  fresult,            \* per fetch: the result getBestPrice returned
  wasApiCall,         \* per fetch: the flag getBestPrice returned
  \* history of the run, read only by the properties
  execCount,          \* per call: executions started
  rejections,         \* per call: rate-limit rejections received
  settleCount,        \* per call: times resolve/reject was invoked
  settlement,         \* per call: pending, resolved, rejected
  lastMsg,            \* per call: message of the error its last execution threw
  schedInterval,      \* minInterval when the pending/last timer was set
  \* one getBestPrice call followed through its payload
  dayCall,            \* the last call: its request, the answer of the upstream, its result
  origin,             \* per day: the response its cache entry was built from
  fingerprints,       \* of one request: the cache key probed and the cache key fetched
  \* the progress stores
  progressCache,      \* search-progress/route.ts: per session, the stored progress
  progressStorage,    \* route.ts:1078: per session, the stored update
  lastPost,           \* per session: the body of the last update posted to progressCache
  lastGet,            \* the answer of the last GET of a progress store
  \* the batch request (POST /api/search-prices)
  batch,              \* the handler's locals: maxDays, dayStatusList, results, counters
  cancelledSessions,  \* cancel-search/route.ts: [sessionId, cleanupAt]
  lastCancel,         \* the answer of the last request to cancel-search
  \* the setInterval timers
  sweepAt             \* per periodic callback: the time it fires next

limiterVars == <<queue, lastApiCallStart, minInterval, activeRequests, rateLimitHits,
                 successfulRequests, processingTimer, retryTimers, inflight>>
fetchVars == <<pc, fkey, fresult, wasApiCall>>
histVars == <<execCount, rejections, settleCount, settlement, lastMsg, schedInterval>>
dayVars == <<dayCall, origin, fingerprints>>
progressVars == <<progressCache, progressStorage, lastPost, lastGet>>
batchVars == <<batch, cancelledSessions, lastCancel>>
timerVars == <<sweepAt>>
auxVars == <<dayVars, progressVars, batchVars, timerVars>>
vars == <<now, ticks, limiterVars, cache, fetchVars, histVars, auxVars>>

NoResult == [kind |-> "none", resp |-> 0, msg |-> <<>>]

\* ------------------------------------------------------------------ cache
HasKey(c, k) == \E i \in 1..Len(c) : c[i].key = k
IndexOf(c, k) == CHOOSE i \in 1..Len(c) : c[i].key = k
\* Map.get
MapGet(c, k) == c[IndexOf(c, k)]
\* Map.delete: the other entries keep their order
MapDelete(c, k) == SelectSeq(c, LAMBDA e : e.key # k)
\* Map.set: an existing key keeps its position, a new key goes last
MapSet(c, e) ==
  IF HasKey(c, e.key)
    THEN [i \in 1..Len(c) |-> IF c[i].key = e.key THEN e ELSE c[i]]
    ELSE Append(c, e)

Expired_never(e, t) == FALSE
\* age > entry.ttl
Expired(e, t) == t - e.timestamp > e.ttl

GetCachedResult_refresh(c, k, t) ==
  IF ~HasKey(c, k) THEN [hit |-> FALSE, data |-> NoResult, cache |-> c]
  ELSE IF Expired(MapGet(c, k), t)
    THEN [hit |-> FALSE, data |-> NoResult, cache |-> MapDelete(c, k)]
    ELSE [hit |-> TRUE, data |-> MapGet(c, k).data,
          cache |-> Append(MapDelete(c, k), [MapGet(c, k) EXCEPT !.timestamp = t])]
GetCachedResult_keep(c, k, t) ==
  IF ~HasKey(c, k) THEN [hit |-> FALSE, data |-> NoResult, cache |-> c]
  ELSE IF Expired(MapGet(c, k), t)
    THEN [hit |-> FALSE, data |-> NoResult, cache |-> c]
    ELSE [hit |-> TRUE, data |-> MapGet(c, k).data, cache |-> c]
\* getCachedResult: the payload and the cache after the lookup
GetCachedResult(c, k, t) ==
  IF ~HasKey(c, k) THEN [hit |-> FALSE, data |-> NoResult, cache |-> c]
  ELSE IF Expired(MapGet(c, k), t)
    THEN [hit |-> FALSE, data |-> NoResult, cache |-> MapDelete(c, k)]
    ELSE [hit |-> TRUE, data |-> MapGet(c, k).data, cache |-> c]

SetCachedResult_skip(c, k, data, t) == c
SetCachedResult_newest(c, k, data, t) ==
  LET c1 == IF Len(c) >= MAX_CACHE_ENTRIES /\ Len(c) > 0 THEN MapDelete(c, c[Len(c)].key) ELSE c
  IN MapSet(c1, [key |-> k, data |-> data, timestamp |-> t, ttl |-> CACHE_TTL])
\* setCachedResult: evict the first key when full, then Map.set
SetCachedResult(c, k, data, t) ==
  LET c1 == IF Len(c) >= MAX_CACHE_ENTRIES /\ Len(c) > 0 THEN MapDelete(c, c[1].key) ELSE c
  IN MapSet(c1, [key |-> k, data |-> data, timestamp |-> t, ttl |-> CACHE_TTL])

CleanupCache_standardTtl(c, t) == SelectSeq(c, LAMBDA e : ~(t - e.timestamp > CACHE_TTL))
\* cleanupCache: every entry whose age exceeds its ttl is deleted
CleanupCache(c, t) == SelectSeq(c, LAMBDA e : ~Expired(e, t))

CacheSetError_standardTtl(c, k, data, t) ==
  MapSet(c, [key |-> k, data |-> data, timestamp |-> t, ttl |-> CACHE_TTL])
CacheSetError_clearing(c, k, data, t) ==
  <<[key |-> k, data |-> data, timestamp |-> t, ttl |-> ERROR_TTL]>>
\* the catch block of getBestPrice: cache.set directly, one minute ttl
CacheSetError(c, k, data, t) ==
  MapSet(c, [key |-> k, data |-> data, timestamp |-> t, ttl |-> ERROR_TTL])

\* ---------------------------------------------------------------- limiter
\* Math.round(Math.min(minInterval * 1.5, maxInterval))
OnRateLimitHitInterval(mi) == Min((3 * mi + 1) \div 2, maxInterval)

OnRequestSuccess_always(mi, succ) ==
  IF mi > baseInterval
    THEN [minInterval |-> Max((3 * mi + 2) \div 4, baseInterval), successfulRequests |-> 0]
    ELSE [minInterval |-> mi, successfulRequests |-> succ + 1]
\* onRequestSuccess: [minInterval, successfulRequests] after a success
OnRequestSuccess(mi, succ) ==
  IF succ + 1 >= 3 /\ mi > baseInterval
    THEN [minInterval |-> Max((3 * mi + 2) \div 4, baseInterval), successfulRequests |-> 0]
    ELSE [minInterval |-> mi, successfulRequests |-> succ + 1]

Pow2(n) == IF n = 0 THEN 1 ELSE IF n = 1 THEN 2 ELSE IF n = 2 THEN 4 ELSE 8
\* Math.min(2000 * Math.pow(2, retryCount), 8000)
CalculateRetryDelay(retryCount) == Min(2000 * Pow2(Min(retryCount, 3)), 8000)

\* the retryCount executeRequestWithRetry runs with: processNextRequest calls
\* it with one argument, so the default value of the parameter applies
RetryCountArg == 0

SlotBusy(active) == active >= maxConcurrentRequests

QueueShift_peek(q) == [request |-> Head(q), rest |-> q]
QueueShift_pop(q) == [request |-> q[Len(q)], rest |-> SubSeq(q, 1, Len(q) - 1)]
\* this.queue.shift(): the request taken and the queue left
QueueShift(q) == [request |-> Head(q), rest |-> Tail(q)]

ScheduleNextProcessing_whileBusy(timer, q, active, last, mi, t) ==
  IF timer # NoTimer \/ Len(q) = 0 THEN timer ELSE t + Max(0, mi - (t - last))
ScheduleNextProcessing_nodelay(timer, q, active, last, mi, t) ==
  IF timer # NoTimer \/ Len(q) = 0 \/ SlotBusy(active) THEN timer ELSE t
\* scheduleNextProcessing: the timer after the call
ScheduleNextProcessing(timer, q, active, last, mi, t) ==
  IF timer # NoTimer \/ Len(q) = 0 \/ SlotBusy(active)
    THEN timer
    ELSE t + Max(0, mi - (t - last))

\* the limiter's timer and its bookkeeping after scheduleNextProcessing ran
\* on a limiter whose timer was `timer`
Schedule(timer, q, active, last, mi) ==
  LET t2 == ScheduleNextProcessing(timer, q, active, last, mi, now)
  IN /\ processingTimer' = t2
     /\ IF timer = NoTimer /\ t2 # NoTimer
          THEN schedInterval' = mi
          ELSE UNCHANGED schedInterval

\* ------------------------------------------------------------ getBestPrice
\* what the cache-hit path returns for a cached payload
HitResult(data) ==
  IF data.kind = "intervals" THEN [data EXCEPT !.kind = "priced"] ELSE data

\* what the code after `await addToQueue` caches and returns for a response body
ParsedPayload(body) ==
  IF body.kind = "noprice" THEN [kind |-> "noprice", resp |-> 0, msg |-> <<>>]
  ELSE IF body.kind = "nointervalle" THEN [kind |-> "nointervalle", resp |-> 0, msg |-> <<>>]
  ELSE [kind |-> "intervals", resp |-> body.resp, msg |-> <<>>]

ErrorResult(msg) == [kind |-> "fetcherror", resp |-> 0, msg |-> msg]
ParseErrorResult == [kind |-> "parseerror", resp |-> 0, msg |-> <<>>]

\* ------------------------------------------------- the payload of one day
\* bound: intervals in one upstream response
MaxIntervals == 2
\* bound: clock advances while one day is followed
MaxDayTicks == 2
\* time-of-day slots of a calendar day (scaled from the minutes of a day); a
\* point in time is date * SlotsPerDay + slot
SlotsPerDay == 4
\* abfahrtAb / ankunftBis absent or ""
NoFilter == -1
\* iv.preis missing, not an object, or without betrag
NoPreis == -1
\* abfahrtsZeitpunkt / ankunftsZeitpunkt: ""
NoZeit == -1

\* the fingerprint of the day the payload-level specification follows
TheDay == 1

\* legs (verbindungsAbschnitte) of verbindungen[0] of an interval: none (or no
\* verbindungen at all), one leg, an overnight leg, two legs
NoLegs == <<>>
OneLeg == <<[abfahrtsZeitpunkt |-> 1, ankunftsZeitpunkt |-> 2]>>
NightLeg == <<[abfahrtsZeitpunkt |-> 2, ankunftsZeitpunkt |-> 5]>>
TwoLegs == <<[abfahrtsZeitpunkt |-> 1, ankunftsZeitpunkt |-> 2],
             [abfahrtsZeitpunkt |-> 2, ankunftsZeitpunkt |-> 3]>>
\* data.intervalle[i]: the intervals the upstream answers are drawn from
Intervals ==
  { [preis |-> 39, legs |-> OneLeg], [preis |-> 59, legs |-> OneLeg],
    [preis |-> 39, legs |-> TwoLegs], [preis |-> 39, legs |-> NightLeg],
    [preis |-> NoPreis, legs |-> OneLeg],
    [preis |-> 39, legs |-> NoLegs], [preis |-> NoPreis, legs |-> NoLegs] }
IntervalLists == UNION { [1..n -> Intervals] : n \in 0..MaxIntervals }
\* values of abfahrtAb and of ankunftBis, as slots of the day
FilterChoices == {NoFilter, 2}

NoOutcome == [ok |-> FALSE, kind |-> "none", intervalle |-> <<>>]
\* what the queued upstream call ends with: an HTTP 200 body by the case
\* getBestPrice distinguishes, or an error that is not a rate-limit rejection
DayOutcomes ==
  { [ok |-> TRUE, kind |-> k, intervalle |-> <<>>] : k \in {"noprice", "notjson", "nointervalle"} }
  \cup { [ok |-> TRUE, kind |-> "intervalle", intervalle |-> s] : s \in IntervalLists }
  \cup { [ok |-> FALSE, kind |-> "error", intervalle |-> <<>>] }

\* { [tag]: { preis: 0, info: text, abfahrtsZeitpunkt: "", ankunftsZeitpunkt: "" } }
PlainResult(text) ==
  [preis |-> 0, info |-> [text |-> text, zeiten |-> <<>>], abfahrtsZeitpunkt |-> NoZeit,
   ankunftsZeitpunkt |-> NoZeit, hasAllIntervals |-> FALSE, allIntervals |-> <<>>]
\* the same with allIntervals: []
NoWindowResult ==
  [PlainResult("Keine Verbindungen im gewaehlten Zeitraum!") EXCEPT !.hasAllIntervals = TRUE]
NoPriceResult == PlainResult("Kein Bestpreis verfuegbar!")
NoIntervalleResult == PlainResult("Keine Intervalle gefunden!")
NoValidPriceResult == PlainResult("Keine gueltigen Preise gefunden!")
JsonParseErrorResult == PlainResult("JSON Parse Error")
FetchErrorResult == PlainResult("Fetch Error")

\* getHours / getMinutes of a point in time
TimeOfDay(ts) == ts % SlotsPerDay
\* getDate of a point in time
DateOf(ts) == ts \div SlotsPerDay

KeepByTime_sameDay(interval, abfahrtAb, ankunftBis) ==
  IF Len(interval.legs) = 0 THEN TRUE
  ELSE
    /\ ~(abfahrtAb # NoFilter /\ TimeOfDay(interval.legs[1].abfahrtsZeitpunkt) < abfahrtAb)
    /\ ~(ankunftBis # NoFilter
         /\ TimeOfDay(interval.legs[Len(interval.legs)].ankunftsZeitpunkt) > ankunftBis)
\* the callback of intervals.filter in filterByTime
KeepByTime(interval, abfahrtAb, ankunftBis) ==
  IF Len(interval.legs) = 0 THEN TRUE
  ELSE
    LET ersteAbfahrt == interval.legs[1].abfahrtsZeitpunkt
        letzteAnkunft == interval.legs[Len(interval.legs)].ankunftsZeitpunkt
        istNachtverbindung ==
          letzteAnkunft < ersteAbfahrt \/ DateOf(letzteAnkunft) # DateOf(ersteAbfahrt)
        connectionTime ==
          IF istNachtverbindung THEN SlotsPerDay + TimeOfDay(letzteAnkunft)
                                ELSE TimeOfDay(letzteAnkunft)
    IN /\ ~(abfahrtAb # NoFilter /\ TimeOfDay(ersteAbfahrt) < abfahrtAb)
       /\ ~(ankunftBis # NoFilter /\ connectionTime > ankunftBis)

FilterByTime(intervals, abfahrtAb, ankunftBis) ==
  IF abfahrtAb = NoFilter /\ ankunftBis = NoFilter THEN intervals
  ELSE SelectSeq(intervals, LAMBDA iv : KeepByTime(iv, abfahrtAb, ankunftBis))

\* the two nested conditions under which the loops of getBestPrice record an interval
HasPreisAndLegs(iv) == iv.preis # NoPreis /\ Len(iv.legs) > 0

\* the record pushed to allIntervalsForCache / allIntervals: departure of the
\* first leg, arrival of the last leg; info is built from these two
IntervalRecord(iv) ==
  [preis |-> iv.preis,
   abfahrtsZeitpunkt |-> iv.legs[1].abfahrtsZeitpunkt,
   ankunftsZeitpunkt |-> iv.legs[Len(iv.legs)].ankunftsZeitpunkt,
   info |-> [text |-> "", zeiten |-> <<iv.legs[1].abfahrtsZeitpunkt,
                                       iv.legs[Len(iv.legs)].ankunftsZeitpunkt>>]]

RECURSIVE InsertByPreis(_, _)
InsertByPreis(sorted, x) ==
  IF sorted = <<>> THEN <<x>>
  ELSE IF sorted[Len(sorted)].preis <= x.preis THEN Append(sorted, x)
  ELSE Append(InsertByPreis(SubSeq(sorted, 1, Len(sorted) - 1), x), sorted[Len(sorted)])
RECURSIVE SortByPreis(_)
\* Array.prototype.sort((a, b) => a.preis - b.preis): stable
SortByPreis(s) ==
  IF s = <<>> THEN <<>>
  ELSE InsertByPreis(SortByPreis(SubSeq(s, 1, Len(s) - 1)), s[Len(s)])

\* the records the loops build from a list of intervals, in the list's order
RecordsOf(intervals) ==
  LET usable == SelectSeq(intervals, HasPreisAndLegs)
  IN [i \in 1..Len(usable) |-> IntervalRecord(usable[i])]

\* fullResult, the payload setCachedResult stores after a parsed response
FullResult(intervalle) ==
  [preis |-> 0, info |-> [text |-> "", zeiten |-> <<>>], abfahrtsZeitpunkt |-> NoZeit,
   ankunftsZeitpunkt |-> NoZeit, hasAllIntervals |-> TRUE,
   allIntervals |-> SortByPreis(RecordsOf(intervalle))]

\* Math.min over the prices of a non-empty list of records
MinPreis(records) ==
  CHOOSE p \in {records[i].preis : i \in 1..Len(records)} :
    \A i \in 1..Len(records) : p <= records[i].preis
\* Array.prototype.find(x => x.preis === preis)
FindByPreis(records, preis) ==
  records[CHOOSE i \in 1..Len(records) :
            /\ records[i].preis = preis
            /\ \A j \in 1..(i - 1) : records[j].preis # preis]

\* the interval filterByTime is given for a cached record: one leg from the
\* record's departure to its arrival
AsInterval(record) ==
  [preis |-> record.preis,
   legs |-> <<[abfahrtsZeitpunkt |-> record.abfahrtsZeitpunkt,
               ankunftsZeitpunkt |-> record.ankunftsZeitpunkt]>>]

HitPathResult_unfiltered(cachedData, abfahrtAb, ankunftBis) == cachedData
\* the cache-hit path of getBestPrice: the result for the payload of a live entry
HitPathResult(cachedData, abfahrtAb, ankunftBis) ==
  IF ~cachedData.hasAllIntervals THEN cachedData
  ELSE
    LET all == cachedData.allIntervals
        filteredIntervals ==
          FilterByTime([i \in 1..Len(all) |-> AsInterval(all[i])], abfahrtAb, ankunftBis)
    IN IF Len(filteredIntervals) = 0 THEN NoWindowResult
       ELSE
         LET minPreis == MinPreis(filteredIntervals)
             bestInterval == FindByPreis(all, minPreis)
             filteredAllIntervals ==
               SelectSeq(all, LAMBDA r :
                 \E j \in 1..Len(filteredIntervals) :
                   /\ r.abfahrtsZeitpunkt = filteredIntervals[j].legs[1].abfahrtsZeitpunkt
                   /\ r.ankunftsZeitpunkt = filteredIntervals[j].legs[1].ankunftsZeitpunkt)
         IN [preis |-> minPreis, info |-> bestInterval.info,
             abfahrtsZeitpunkt |-> bestInterval.abfahrtsZeitpunkt,
             ankunftsZeitpunkt |-> bestInterval.ankunftsZeitpunkt,
             hasAllIntervals |-> TRUE, allIntervals |-> SortByPreis(filteredAllIntervals)]

\* the key of the preise object: info + newPreis, as tokens
InfoKey(record) == Append(record.info.zeiten, record.preis)
RECURSIVE ReplaceFirst(_, _)
\* String.prototype.replace(token, ""): the first occurrence is removed
ReplaceFirst(tokens, token) ==
  IF tokens = <<>> THEN <<>>
  ELSE IF Head(tokens) = token THEN Tail(tokens)
  ELSE <<Head(tokens)>> \o ReplaceFirst(Tail(tokens), token)

\* the cache-miss path of getBestPrice after fullResult is cached: the result
\* for the intervals of the response
MissPathResult(intervalle, abfahrtAb, ankunftBis) ==
  LET filteredIntervalle == FilterByTime(intervalle, abfahrtAb, ankunftBis)
  IN IF Len(filteredIntervalle) = 0 THEN NoWindowResult
     ELSE
       LET usable == SelectSeq(filteredIntervalle, HasPreisAndLegs)
           allIntervals == RecordsOf(filteredIntervalle)
       IN IF Len(allIntervals) = 0 THEN NoValidPriceResult
          ELSE
            LET minPreis == MinPreis(allIntervals)
                infoKey == InfoKey(FindByPreis(allIntervals, minPreis))
                bestConnection == FindByPreis(usable, minPreis)
            IN [preis |-> minPreis,
                info |-> [text |-> "", zeiten |-> ReplaceFirst(infoKey, minPreis)],
                abfahrtsZeitpunkt |-> bestConnection.legs[1].abfahrtsZeitpunkt,
                ankunftsZeitpunkt |-> bestConnection.legs[1].ankunftsZeitpunkt,
                hasAllIntervals |-> TRUE, allIntervals |-> SortByPreis(allIntervals)]

\* what getBestPrice stores in the cache for an outcome of the upstream call
\* (nothing for a body that is not JSON)
CachedPayload(o) ==
  IF ~o.ok THEN FetchErrorResult
  ELSE IF o.kind = "noprice" THEN NoPriceResult
  ELSE IF o.kind = "nointervalle" THEN NoIntervalleResult
  ELSE FullResult(o.intervalle)

\* what getBestPrice returns for an outcome of the upstream call
MissResult(o, abfahrtAb, ankunftBis) ==
  IF ~o.ok THEN FetchErrorResult
  ELSE IF o.kind = "noprice" THEN NoPriceResult
  ELSE IF o.kind = "notjson" THEN JsonParseErrorResult
  ELSE IF o.kind = "nointervalle" THEN NoIntervalleResult
  ELSE MissPathResult(o.intervalle, abfahrtAb, ankunftBis)

GenerateCacheKey_withFilters(day, abfahrtAb, ankunftBis) ==
  100 * day + 10 * (abfahrtAb + 1) + (ankunftBis + 1)
\* generateCacheKey of the parameters getBestPrice passes: the day's
\* parameters, without abfahrtAb and ankunftBis
GenerateCacheKey(day, abfahrtAb, ankunftBis) == day

NoCall ==
  [made |-> FALSE, abfahrtAb |-> NoFilter, ankunftBis |-> NoFilter, hit |-> FALSE,
   wasApiCall |-> FALSE, outcome |-> NoOutcome, result |-> PlainResult("")]
NoOrigin ==
  [written |-> FALSE, outcome |-> NoOutcome, at |-> 0,
   abfahrtAb |-> NoFilter, ankunftBis |-> NoFilter]

\* ------------------------------------------------------ progress stores
\* bound: sessions
NumSessions == 2
\* bound: days of the batch whose progress is reported
MaxDays == 1
Sessions == 1..NumSessions

\* the values of uncachedDays / cachedDays and of the two moving averages (ms)
\* an update carries, or none of the four
NumberChoices ==
  { [uncachedDays |-> u, cachedDays |-> c, averageUncachedResponseTime |-> 1500,
     averageCachedResponseTime |-> 100] : u \in 0..1, c \in 0..1 }
NoNumbers == [uncachedDays |-> 0, cachedDays |-> 0, averageUncachedResponseTime |-> 0,
              averageCachedResponseTime |-> 0]
\* the JSON body updateProgress posts
ProgressUpdates ==
  { [currentDay |-> d, totalDays |-> MaxDays, isComplete |-> ic, hasNumbers |-> TRUE, numbers |-> n] :
      d \in 0..MaxDays, ic \in BOOLEAN, n \in NumberChoices }
  \cup
  { [currentDay |-> d, totalDays |-> MaxDays, isComplete |-> ic, hasNumbers |-> FALSE,
     numbers |-> NoNumbers] : d \in 0..MaxDays, ic \in BOOLEAN }
NoUpdate == [currentDay |-> 0, totalDays |-> 0, isComplete |-> FALSE, hasNumbers |-> FALSE,
             numbers |-> NoNumbers]

\* Math.round(n / 1000) for an integer n
RoundThousandth(n) == (n + 500) \div 1000

\* an absent Map entry
NoProgress ==
  [present |-> FALSE, currentDay |-> 0, totalDays |-> 0, isComplete |-> FALSE,
   estimatedTimeRemaining |-> 0, startTime |-> 0, lastUpdate |-> 0]
NoStored == [present |-> FALSE, data |-> NoUpdate, timestamp |-> 0]
NoGet == [made |-> FALSE, sessionId |-> 0, status |-> 0, currentDay |-> 0, totalDays |-> 0,
          isComplete |-> FALSE, estimatedTimeRemaining |-> 0]

\* search-progress/route.ts POST: estimatedTimeRemaining before Math.max
EtaOfUpdate_floor(u) ==
  IF u.hasNumbers
    THEN (u.numbers.uncachedDays * u.numbers.averageUncachedResponseTime
           + u.numbers.cachedDays * u.numbers.averageCachedResponseTime) \div 1000
    ELSE 0
EtaOfUpdate(u) ==
  IF u.hasNumbers
    THEN RoundThousandth(u.numbers.uncachedDays * u.numbers.averageUncachedResponseTime
                          + u.numbers.cachedDays * u.numbers.averageCachedResponseTime)
    ELSE 0

\* search-progress/route.ts POST: the progress object stored for the session
ProgressOf(existingProgress, u, t) ==
  [present |-> TRUE, currentDay |-> u.currentDay, totalDays |-> u.totalDays,
   isComplete |-> u.isComplete \/ u.currentDay >= u.totalDays,
   estimatedTimeRemaining |-> Max(0, EtaOfUpdate(u)),
   startTime |-> IF existingProgress.present /\ existingProgress.startTime # 0
                   THEN existingProgress.startTime ELSE t,
   lastUpdate |-> t]

\* route.ts GET (progress store): estimatedTimeRemaining of a stored update
EtaOfStored(data) ==
  IF ~data.isComplete /\ data.hasNumbers /\ data.numbers.uncachedDays # 0
     /\ data.numbers.averageUncachedResponseTime # 0
    THEN RoundThousandth(data.numbers.uncachedDays * data.numbers.averageUncachedResponseTime
                          + data.numbers.uncachedDays * 1000)
    ELSE 0

ProgressInit ==
  /\ progressCache = [s \in Sessions |-> NoProgress]
  /\ progressStorage = [s \in Sessions |-> NoStored]
  /\ lastPost = [s \in Sessions |-> NoUpdate]
  /\ lastGet = NoGet

\* the handler before any request
NoBatch ==
  [phase |-> "none", status |-> 0,
   request |-> [start |-> FALSE, ziel |-> FALSE, stationsFound |-> FALSE, sessionId |-> 0,
                dayLimit |-> 0, version |-> "none"],
   version |-> "none", sessionId |-> 0, maxDays |-> 0,
   base |-> 0, isCached |-> <<>>, completedRequests |-> 0, processed |-> {},
   results |-> [d \in Fetches |-> "absent"], totalUncachedDays |-> 0, totalCachedDays |-> 0,
   averaged |-> [d \in Fetches |-> "none"], inFlight |-> {}]

\* ------------------------------------------------------- fingerprints
\* the values a boolean-like field of the request body may carry
FlagValues ==
  { [t |-> "boolean", b |-> TRUE, s |-> ""], [t |-> "boolean", b |-> FALSE, s |-> ""],
    [t |-> "string", b |-> FALSE, s |-> "true"], [t |-> "string", b |-> FALSE, s |-> "1"],
    [t |-> "undefined", b |-> FALSE, s |-> ""] }

\* Boolean(v === true || v === "true")
NormalizeFlag(v) == (v.t = "boolean" /\ v.b) \/ (v.t = "string" /\ v.s = "true")

\* v === true || v === "1", the value POST hands to getBestPrice
FlagForCall(v) ==
  [t |-> "boolean", b |-> (v.t = "boolean" /\ v.b) \/ (v.t = "string" /\ v.s = "1"), s |-> ""]

\* Number.parseInt(maximaleUmstiege || "0") of "", "0", "1"
ParseUmstiege(m) == IF m = "1" THEN 1 ELSE 0

\* the key POST probes when it classifies the day (route.ts:918-931)
ProbeKey(req) ==
  [date |-> req.date, maximaleUmstiege |-> ParseUmstiege(req.maximaleUmstiege),
   schnelleVerbindungen |-> NormalizeFlag(req.schnelleVerbindungen),
   nurDeutschlandTicketVerbindungen |-> NormalizeFlag(req.nurDeutschlandTicketVerbindungen)]

\* the key getBestPrice builds from the config POST calls it with
FetchKey(req) ==
  [date |-> req.date, maximaleUmstiege |-> ParseUmstiege(req.maximaleUmstiege),
   schnelleVerbindungen |-> NormalizeFlag(FlagForCall(req.schnelleVerbindungen)),
   nurDeutschlandTicketVerbindungen |->
     NormalizeFlag(FlagForCall(req.nurDeutschlandTicketVerbindungen))]

\* bound: the largest dayLimit and the longest list of dates of a request
MaxDayLimit == 31
\* dayLimit of the request body: absent, a string that is not a number, a
\* number, or a string of digits
DayLimitValues ==
  { [t |-> "undefined", n |-> 0], [t |-> "text", n |-> 0] }
  \cup { [t |-> ty, n |-> i] : ty \in {"number", "string"}, i \in (-1)..MaxDayLimit }
\* a number or NaN
Num(n) == [isNaN |-> FALSE, n |-> n]
NaN == [isNaN |-> TRUE, n |-> 0]
\* Number.parseInt(dayLimit || "3")
ParseDayLimit(v) ==
  IF v.t = "undefined" \/ (v.t = "number" /\ v.n = 0) THEN Num(3)
  ELSE IF v.t = "text" THEN NaN
  ELSE Num(v.n)
\* Math.min(Math.max(x, 1), 30): NaN stays NaN
ClampDays(x) == IF x.isNaN THEN NaN ELSE Num(Min(Max(x.n, 1), 30))
\* maxDays of the handler
MaxDaysOf(req) ==
  IF req.version = "parallel" /\ req.tage > 0 THEN Num(Min(req.tage, 30))
  ELSE ClampDays(ParseDayLimit(req.dayLimit))
\* the days the loops over dayCount < maxDays run through
DaysProcessed(maxDays) == IF maxDays.isNaN THEN 0 ELSE maxDays.n

AuxInit ==
  /\ dayCall = NoCall
  /\ origin = NoOrigin
  /\ fingerprints = [made |-> FALSE]
  /\ sweepAt = [cleanupCache |-> StartTime + SweepPeriod,
                  progressStorage |-> StartTime + SweepPeriod]
  /\ ProgressInit
  /\ batch = NoBatch
  /\ cancelledSessions = {}
  /\ lastCancel = [made |-> FALSE, method |-> "none", sessionId |-> 0, isCancelled |-> FALSE,
                   wasAlreadyCancelled |-> FALSE]

Init ==
  /\ now = StartTime
  /\ ticks = 0
  /\ queue = <<>>
  /\ lastApiCallStart = 0
  /\ minInterval = 1000
  /\ activeRequests = 0
  /\ rateLimitHits = 0
  /\ successfulRequests = 0
  /\ processingTimer = NoTimer
  /\ retryTimers = {}
  /\ inflight = {}
  /\ cache = <<>>
  /\ pc = [f \in Fetches |-> "idle"]
  /\ fkey = [f \in Fetches |-> NoKey]
  /\ fresult = [f \in Fetches |-> NoResult]
  /\ wasApiCall = [f \in Fetches |-> FALSE]
  /\ execCount = [f \in Fetches |-> 0]
  /\ rejections = [f \in Fetches |-> 0]
  /\ settleCount = [f \in Fetches |-> 0]
  /\ settlement = [f \in Fetches |-> "pending"]
  /\ lastMsg = [f \in Fetches |-> <<>>]
  /\ schedInterval = 0
  /\ AuxInit

\* the statistics and history counters count up to MaxRateLimitHits + 1
Counted(n) == Min(n + 1, MaxRateLimitHits + 1)

\* the clock advances; timers may fire late, never early
Tick(d) ==
  /\ ticks < MaxTicks
  /\ now' = now + d
  /\ ticks' = ticks + 1
  /\ UNCHANGED <<limiterVars, cache, fetchVars, histVars, auxVars>>

\* keys are numbered in the order they are first used
FreshKeyOrUsed(k) == \A j \in 1..(k - 1) : \E g \in Fetches : fkey[g] = j

\* getBestPrice up to its first suspension: the cache lookup and, on a miss,
\* addToQueue.  Fetches are numbered in the order they are invoked.
GetBestPrice(f, k) ==
  /\ pc[f] = "idle"
  /\ IF f = 1 THEN TRUE ELSE pc[f - 1] # "idle"
  /\ FreshKeyOrUsed(k)
  /\ LET r == GetCachedResult(cache, k, now)
     IN /\ cache' = r.cache
        /\ fkey' = [fkey EXCEPT ![f] = k]
        /\ IF r.hit
             THEN /\ pc' = [pc EXCEPT ![f] = "done"]
                  /\ fresult' = [fresult EXCEPT ![f] = HitResult(r.data)]
                  /\ UNCHANGED <<limiterVars, schedInterval>>
             ELSE /\ pc' = [pc EXCEPT ![f] = "queued"]
                  /\ queue' = Append(queue, f)
                  /\ Schedule(processingTimer, queue', activeRequests, lastApiCallStart, minInterval)
                  /\ UNCHANGED <<fresult, lastApiCallStart, minInterval, activeRequests,
                                 rateLimitHits, successfulRequests, retryTimers, inflight>>
  /\ UNCHANGED <<now, ticks, wasApiCall, execCount, rejections, settleCount, settlement, lastMsg,
                 auxVars>>

\* the processing timer fires: processNextRequest
ProcessNextRequest ==
  /\ processingTimer # NoTimer
  /\ now >= processingTimer
  /\ IF Len(queue) = 0 \/ SlotBusy(activeRequests)
       THEN /\ processingTimer' = NoTimer
            /\ UNCHANGED <<queue, lastApiCallStart, activeRequests, inflight, pc, execCount,
                           schedInterval>>
       ELSE LET request == QueueShift(queue).request
            IN /\ queue' = QueueShift(queue).rest
               /\ lastApiCallStart' = now
               /\ activeRequests' = activeRequests + 1
               /\ inflight' = inflight \cup {request}
               /\ pc' = [pc EXCEPT ![request] = "running"]
               /\ execCount' = [execCount EXCEPT ![request] = Counted(@)]
               /\ Schedule(NoTimer, queue', activeRequests', lastApiCallStart', minInterval)
  /\ UNCHANGED <<now, ticks, minInterval, rateLimitHits, successfulRequests, retryTimers,
                 cache, fkey, fresult, wasApiCall, rejections, settleCount, settlement, lastMsg,
                 auxVars>>

\* what the cache-miss path returns for a parsed response body
FreshResult(body) ==
  IF body.kind = "intervalle" THEN [kind |-> "priced", resp |-> body.resp, msg |-> <<>>]
  ELSE ParsedPayload(body)

ShouldRetry_never(retryCount) == FALSE
\* retryCount < maxRetries
ShouldRetry(retryCount) == retryCount < maxRetries

Requeue_twice(q, request) == Append(Append(q, request), request)
\* this.queue.push(retryRequest)
Requeue(q, request) == Append(q, request)

\* the upstream answers the running call: executeRequestWithRetry from the
\* await on, its finally handler in processNextRequest, and the rest of
\* getBestPrice when the caller's promise is settled
UpstreamReturns(f, o) ==
  /\ f \in inflight
  /\ LET rl == ~o.ok /\ IsRateLimitError(o.msg)
         retry == rl /\ ShouldRetry(RetryCountArg)
         succ == OnRequestSuccess(minInterval, successfulRequests)
     IN /\ minInterval' = IF o.ok THEN succ.minInterval
                          ELSE IF rl THEN OnRateLimitHitInterval(minInterval)
                          ELSE minInterval
        /\ successfulRequests' = IF o.ok THEN succ.successfulRequests
                                 ELSE IF rl THEN 0 ELSE successfulRequests
        /\ rateLimitHits' = IF rl THEN Counted(rateLimitHits) ELSE rateLimitHits
        /\ rejections' = IF rl THEN [rejections EXCEPT ![f] = Counted(@)] ELSE rejections
        /\ lastMsg' = [lastMsg EXCEPT ![f] = o.msg]
        /\ IF retry
             THEN /\ retryTimers' = retryTimers \cup
                        {[req |-> f, fireAt |-> now + CalculateRetryDelay(RetryCountArg)]}
                  /\ pc' = [pc EXCEPT ![f] = "backoff"]
                  /\ UNCHANGED <<cache, fresult, wasApiCall, settleCount, settlement>>
             ELSE /\ retryTimers' = retryTimers
                  /\ pc' = [pc EXCEPT ![f] = "done"]
                  /\ wasApiCall' = [wasApiCall EXCEPT ![f] = TRUE]
                  /\ settleCount' = [settleCount EXCEPT ![f] = @ + 1]
                  /\ settlement' = [settlement EXCEPT ![f] = IF o.ok THEN "resolved" ELSE "rejected"]
                  /\ IF ~o.ok
                       THEN /\ fresult' = [fresult EXCEPT ![f] = ErrorResult(o.msg)]
                            /\ cache' = CacheSetError(cache, fkey[f], ErrorResult(o.msg), now)
                       ELSE IF o.body.kind = "notjson"
                         THEN /\ fresult' = [fresult EXCEPT ![f] = ParseErrorResult]
                              /\ cache' = cache
                         ELSE /\ fresult' = [fresult EXCEPT ![f] = FreshResult(o.body)]
                              /\ cache' = SetCachedResult(cache, fkey[f], ParsedPayload(o.body), now)
        /\ activeRequests' = activeRequests - 1
        /\ inflight' = inflight \ {f}
        /\ Schedule(processingTimer, queue, activeRequests', lastApiCallStart, minInterval')
  /\ UNCHANGED <<now, ticks, queue, lastApiCallStart, fkey, execCount, auxVars>>

\* the same, with the upstream handing out no more than MaxRateLimitHits
\* rate-limit rejections
ExecuteRequestWithRetry(f, o) ==
  /\ (~o.ok /\ IsRateLimitError(o.msg)) => rateLimitHits < MaxRateLimitHits
  /\ UpstreamReturns(f, o)

\* the backoff timeout of a rejected call fires: the call goes back to the queue
RequeueAfterBackoff(t) ==
  /\ t \in retryTimers
  /\ now >= t.fireAt
  /\ retryTimers' = retryTimers \ {t}
  /\ queue' = Requeue(queue, t.req)
  /\ pc' = [pc EXCEPT ![t.req] = "queued"]
  /\ Schedule(processingTimer, queue', activeRequests, lastApiCallStart, minInterval)
  /\ UNCHANGED <<now, ticks, lastApiCallStart, minInterval, activeRequests, rateLimitHits,
                 successfulRequests, inflight, cache, fkey, fresult, wasApiCall,
                 execCount, rejections, settleCount, settlement, lastMsg, auxVars>>

Next ==
  \/ \E d \in TickSteps : Tick(d)
  \/ \E f \in Fetches, k \in Keys : GetBestPrice(f, k)
  \/ ProcessNextRequest
  \/ \E f \in Fetches, o \in Outcomes : ExecuteRequestWithRetry(f, o)
  \/ \E t \in retryTimers : RequeueAfterBackoff(t)

Spec == Init /\ [][Next]_vars

\* ---------------------------------------------- one day, call after call
\* getBestPrice for the day served from the cache
DayHit(abfahrtAb, ankunftBis) ==
  LET r == GetCachedResult(cache, GenerateCacheKey(TheDay, abfahrtAb, ankunftBis), now)
  IN /\ r.hit
     /\ cache' = r.cache
     /\ dayCall' = [made |-> TRUE, abfahrtAb |-> abfahrtAb, ankunftBis |-> ankunftBis,
                    hit |-> TRUE, wasApiCall |-> FALSE, outcome |-> NoOutcome,
                    result |-> HitPathResult(r.data, abfahrtAb, ankunftBis)]
     /\ UNCHANGED <<now, ticks, limiterVars, fetchVars, histVars, origin, fingerprints, progressVars, batchVars,
                    timerVars>>

\* getBestPrice for the day when the lookup misses, run to its return: the
\* call goes through the limiter and ends with outcome o
DayMiss(abfahrtAb, ankunftBis, o) ==
  LET key == GenerateCacheKey(TheDay, abfahrtAb, ankunftBis)
      r == GetCachedResult(cache, key, now)
  IN /\ ~r.hit
     /\ cache' = IF ~o.ok THEN CacheSetError(r.cache, key, CachedPayload(o), now)
                 ELSE IF o.kind = "notjson" THEN r.cache
                 ELSE SetCachedResult(r.cache, key, CachedPayload(o), now)
     /\ dayCall' = [made |-> TRUE, abfahrtAb |-> abfahrtAb, ankunftBis |-> ankunftBis,
                    hit |-> FALSE, wasApiCall |-> TRUE, outcome |-> o,
                    result |-> MissResult(o, abfahrtAb, ankunftBis)]
     /\ origin' = IF o.ok /\ o.kind = "notjson" THEN NoOrigin
                  ELSE [written |-> TRUE, outcome |-> o, at |-> now,
                        abfahrtAb |-> abfahrtAb, ankunftBis |-> ankunftBis]
     /\ UNCHANGED <<now, ticks, limiterVars, fetchVars, histVars, fingerprints, progressVars,
                    batchVars, timerVars>>

DayTickSteps == {2000, CACHE_TTL}

DayNext ==
  \/ \E d \in DayTickSteps : ticks < MaxDayTicks /\ Tick(d)
  \/ \E ab \in FilterChoices, bis \in FilterChoices : DayHit(ab, bis)
  \/ \E ab \in FilterChoices, bis \in FilterChoices, o \in DayOutcomes : DayMiss(ab, bis, o)

SpecDay == Init /\ [][DayNext]_vars

\* ---------------------------------------------- properties of one day
\* the last call went upstream and the response was parsed into intervals
FreshIntervals == dayCall.made /\ ~dayCall.hit /\ dayCall.outcome.ok
                  /\ dayCall.outcome.kind = "intervalle"
\* the cached list holds the record of interval iv
Holds(all, iv) == Len(iv.legs) > 0 /\ \E j \in 1..Len(all) : all[j] = IntervalRecord(iv)
\* the entry written for the last response is found under the key of every
\* filter and holds each interval of the response that satisfies Wanted
EntryHolds(Wanted(_)) ==
  FreshIntervals =>
    \A ab \in FilterChoices, bis \in FilterChoices :
      LET key == GenerateCacheKey(TheDay, ab, bis)
      IN /\ HasKey(cache, key)
         /\ MapGet(cache, key).data.hasAllIntervals
         /\ \A i \in 1..Len(dayCall.outcome.intervalle) :
              Wanted(dayCall.outcome.intervalle[i]) =>
                Holds(MapGet(cache, key).data.allIntervals, dayCall.outcome.intervalle[i])
\* the day's entry was written from a parsed response and its ttl has not passed
OriginLive == origin.written /\ origin.outcome.ok /\ now - origin.at <= CACHE_TTL
\* a call made while the entry is live is a hit that leaves cache and limiter alone
LaterCallHits ==
  (OriginLive /\ (dayCall' # dayCall \/ cache' # cache)) =>
    /\ dayCall'.hit /\ ~dayCall'.wasApiCall
    /\ cache' = cache /\ origin' = origin
    /\ UNCHANGED limiterVars

HasPreis(iv) == iv.preis # NoPreis

\* C11 as stated: the entry a successful fetch writes holds every priced
\* interval of the response whatever the filter of the request, and a later
\* fetch within the ttl, with any filter, is a hit without upstream call.
C11_EveryPricedInterval == []EntryHolds(HasPreis) /\ [][LaterCallHits]_vars

\* C11 (amended): the entry a successful fetch writes holds every interval of
\* the response that has a price and a connection with at least one leg,
\* whatever the filter of the request, and a later fetch within the ttl that
\* differs only in abfahrtAb/ankunftBis hits that entry without upstream call.
C11_FilterFreeEntry == []EntryHolds(HasPreisAndLegs) /\ [][LaterCallHits]_vars

\* a hit with a filter other than that of the populating request, on an entry
\* that holds an interval the populating request's filter had dropped
C11_Witness ==
  /\ dayCall.made /\ dayCall.hit /\ OriginLive
  /\ origin.outcome.kind = "intervalle"
  /\ <<dayCall.abfahrtAb, dayCall.ankunftBis>> # <<origin.abfahrtAb, origin.ankunftBis>>
  /\ \E i \in 1..Len(origin.outcome.intervalle) :
       LET iv == origin.outcome.intervalle[i]
       IN /\ HasPreisAndLegs(iv)
          /\ ~KeepByTime(iv, origin.abfahrtAb, origin.ankunftBis)
          /\ Holds(MapGet(cache, TheDay).data.allIntervals, iv)

\* the last call was served from an entry built from a parsed response
HitOnIntervals == dayCall.made /\ dayCall.hit /\ origin.written /\ origin.outcome.ok
                  /\ origin.outcome.kind = "intervalle"
\* what the cache-miss path returns for the response the entry was built
\* from, under the filter of the last call
FreshForLastCall ==
  MissPathResult(origin.outcome.intervalle, dayCall.abfahrtAb, dayCall.ankunftBis)
IsNoWindow(result) == result.info.text = NoWindowResult.info.text

\* C12: for the same upstream intervals and any filter, the cache-hit path
\* returns the price the cache-miss path returns, and returns the
\* no-connections-in-window result exactly when the cache-miss path does.
C12_HitEqualsMiss ==
  HitOnIntervals =>
    /\ dayCall.result.preis = FreshForLastCall.preis
    /\ IsNoWindow(dayCall.result) <=> IsNoWindow(FreshForLastCall)

\* the response the last call's result rests on: the one it fetched, or the
\* one its cache entry was built from
ResponseOfLastCall == IF dayCall.hit THEN origin.outcome ELSE dayCall.outcome
\* the response has intervals and filterByTime under the last call's filter keeps none
NoneSurvives ==
  /\ ResponseOfLastCall.kind = "intervalle"
  /\ Len(ResponseOfLastCall.intervalle) > 0
  /\ Len(FilterByTime(ResponseOfLastCall.intervalle, dayCall.abfahrtAb, dayCall.ankunftBis)) = 0

\* C19: on the cache-hit and on the cache-miss path, a day whose response
\* has intervals of which none survives the filter yields the zero-price
\* no-connections-in-window result, a day for which the upstream reports no
\* price yields the zero-price no-price result, and the two differ in info.
C19_DistinctSentinels ==
  (dayCall.made /\ ResponseOfLastCall.ok) =>
    /\ NoneSurvives =>
         /\ dayCall.result.preis = 0
         /\ dayCall.result.info.text = "Keine Verbindungen im gewaehlten Zeitraum!"
    /\ ResponseOfLastCall.kind = "noprice" =>
         /\ dayCall.result.preis = 0
         /\ dayCall.result.info.text = "Kein Bestpreis verfuegbar!"
    /\ (NoneSurvives \/ ResponseOfLastCall.kind = "noprice") =>
         (IsNoWindow(dayCall.result) <=> NoneSurvives)

\* a hit on an entry with a priced connection that the call's filter drops
C19_Witness ==
  /\ dayCall.made /\ dayCall.hit /\ NoneSurvives
  /\ \E i \in 1..Len(origin.outcome.intervalle) : HasPreisAndLegs(origin.outcome.intervalle[i])

\* ------------------------------------------------------------ properties
Submitted(f) == pc[f] \in {"queued", "running", "backoff"} \/ wasApiCall[f]
Live(c, k, t) == HasKey(c, k) /\ t - MapGet(c, k).timestamp <= MapGet(c, k).ttl
InQueue(f) == \E i \in 1..Len(queue) : queue[i] = f

\* C1: at most one upstream price call executes at any time: activeRequests
\* is 0 or 1, and the calls in flight upstream are exactly the calls the
\* limiter dequeued, started and still counts as active.
C1_SingleFlight ==
  /\ activeRequests \in {0, 1}
  /\ Cardinality(inflight) = activeRequests
  /\ \A f \in inflight : pc[f] = "running" /\ execCount[f] >= 1 /\ ~InQueue(f)

C1_Witness == activeRequests = 1 /\ Len(queue) >= 2

\* C2: a call starts only when every call submitted before it that was never
\* rate-limit-rejected has already started; a rejected call re-enters the
\* queue at its tail, behind every call waiting at that moment.
C2_FifoOrder ==
  [][ /\ \A b \in Fetches : execCount'[b] = execCount[b] + 1 =>
           \A a \in Fetches : (a < b /\ Submitted(a) /\ rejections[a] = 0) => execCount[a] >= 1
      /\ \A c \in Fetches : (pc[c] = "backoff" /\ pc'[c] = "queued") =>
           queue' = queue \o <<c>> ]_vars

C2_Witness ==
  \E a, b \in Fetches :
    /\ a < b /\ rejections[a] >= 1 /\ execCount[b] >= 1 /\ rejections[b] = 0
    /\ Len(queue) >= 2 /\ queue[Len(queue)] = a

\* C3: a call rejected with a rate-limit error on every execution is re-queued
\* at most 3 times: on its 4th rejection it fails terminally, its promise is
\* rejected and it is in neither the queue nor a backoff timer.
C3_RetryCeiling ==
  \A f \in Fetches : rejections[f] > maxRetries =>
    /\ settlement[f] = "rejected" /\ pc[f] = "done"
    /\ ~InQueue(f) /\ ~\E t \in retryTimers : t.req = f

\* C4: an execution that fails with a transport error (not a rate-limit
\* error) rejects the caller's promise at once, exactly once, with that error:
\* no re-queue, no backoff timer, and getBestPrice returns the error placeholder.
C4_NonRateLimitFails ==
  [][ \A f \in Fetches :
        (pc[f] = "running" /\ pc'[f] # "running" /\ lastMsg'[f] = <<"fetch failed">>) =>
          /\ settlement[f] = "pending" /\ settlement'[f] = "rejected" /\ settleCount'[f] = 1
          /\ pc'[f] = "done" /\ wasApiCall'[f]
          /\ queue' = queue /\ retryTimers' = retryTimers
          /\ fresult'[f] = [kind |-> "fetcherror", resp |-> 0, msg |-> <<"fetch failed">>] ]_vars

C4_Witness ==
  \E f \in Fetches : pc[f] = "done" /\ settlement[f] = "rejected" /\ execCount[f] = 1
                      /\ lastMsg[f] = <<"fetch failed">>

\* C5: a call rejected with a rate-limit error fewer than 3 times is not
\* failed for it: its promise is settled at most once, never rejected with a
\* rate-limit error, and when an execution then succeeds the promise is
\* resolved, exactly once, and getBestPrice returns no fetch error.
C5_RetryThenSuccess ==
  \A f \in Fetches : (rejections[f] >= 1 /\ rejections[f] < maxRetries) =>
    /\ settleCount[f] <= 1
    /\ settlement[f] = "rejected" => ~IsRateLimitError(lastMsg[f])
    /\ (pc[f] = "done" /\ lastMsg[f] = <<>>) =>
         (settlement[f] = "resolved" /\ settleCount[f] = 1 /\ fresult[f].kind # "fetcherror")

C5_Witness ==
  \E f \in Fetches : rejections[f] >= 1 /\ rejections[f] < maxRetries
                      /\ pc[f] = "done" /\ settlement[f] = "resolved"

C7_InterStartInterval ==
  [][ /\ (\E f \in Fetches : execCount'[f] = execCount[f] + 1) =>
           (lastApiCallStart' = now /\ now - lastApiCallStart >= schedInterval)
      /\ (activeRequests' < activeRequests /\ Len(queue') > 0
             /\ now - lastApiCallStart >= minInterval') => processingTimer' = now ]_vars

C7_Witness ==
  /\ \E f, g \in Fetches : f # g /\ execCount[f] >= 1 /\ execCount[g] >= 1
  /\ activeRequests = 0 /\ Len(queue) > 0
  /\ processingTimer = now /\ now - lastApiCallStart >= minInterval

\* C8: after any sequence of fetches, whatever their outcomes, the cache
\* holds at most MAX_CACHE_ENTRIES entries.
C8_CacheBounded == Len(cache) <= MAX_CACHE_ENTRIES

\* C9: a lookup returns a payload only for an entry that exists and whose age
\* does not exceed its ttl; a lookup that finds an expired entry misses and
\* removes exactly that entry, leaving the key absent.
C9_LookupExpiry ==
  [][ \A f \in Fetches : (pc[f] = "idle" /\ pc'[f] # "idle") =>
        LET k == fkey'[f]
            had == \E i \in 1..Len(cache) : cache[i].key = k
            e == cache[CHOOSE i \in 1..Len(cache) : cache[i].key = k]
        IN /\ pc'[f] = "done" =>
                (had /\ now - e.timestamp <= e.ttl /\ fresult'[f] = HitResult(e.data))
           /\ (had /\ now - e.timestamp > e.ttl) =>
                /\ pc'[f] = "queued"
                /\ cache' = SelectSeq(cache, LAMBDA x : x.key # k)
                /\ Len(cache') = Len(cache) - 1 ]_vars

\* fetch 1 stored an entry, nothing else ran, and fetch 2 of the same key
\* missed: its lookup found the entry expired and removed it
C9_Witness ==
  /\ pc[1] = "done" /\ wasApiCall[1] /\ fresult[1].kind # "parseerror"
  /\ pc[2] = "queued" /\ execCount[2] = 0 /\ fkey[2] = fkey[1]
  /\ pc[3] = "idle" /\ cache = <<>>

\* C10 as claimed: of two fetches with the same fingerprint, with no ttl
\* expired (less than the shortest ttl has passed since the first request),
\* the second makes no upstream call.
C10_AnyInterleaving ==
  \A f, g \in Fetches :
    (f < g /\ pc[g] # "idle" /\ fkey[f] = fkey[g] /\ now - StartTime <= ERROR_TTL) =>
      execCount[g] = 0

\* C10 as amended: a fetch that returns with anything but an unparsable body
\* leaves an entry for its fingerprint, stamped with the current time; a fetch
\* that begins while the entry of its fingerprint is in the cache and not
\* expired returns at once, makes no upstream call and leaves the cache and
\* the limiter's queue as they were.
C10_SequentialHit ==
  [][ /\ \A f \in Fetches :
           (pc[f] = "running" /\ pc'[f] = "done" /\ fresult'[f].kind # "parseerror") =>
             \E i \in 1..Len(cache') : cache'[i].key = fkey[f] /\ cache'[i].timestamp = now
      /\ \A g \in Fetches :
           (pc[g] = "idle" /\ pc'[g] # "idle" /\ Live(cache, fkey'[g], now)) =>
             /\ pc'[g] = "done" /\ ~wasApiCall'[g] /\ execCount'[g] = 0
             /\ cache' = cache /\ queue' = queue /\ inflight' = inflight ]_vars

C10_Witness ==
  \E f, g \in Fetches :
    /\ f < g /\ fkey[f] = fkey[g]
    /\ pc[f] = "done" /\ wasApiCall[f] /\ fresult[f].kind = "priced"
    /\ pc[g] = "done" /\ ~wasApiCall[g] /\ execCount[g] = 0 /\ fresult[g] = fresult[f]

\* C18: a lookup serves the result of a failed upstream call exactly while at
\* most the error ttl (60 s) has passed since it was stored, and the result
\* of a successful or no-price call exactly while at most the standard ttl
\* (60 min) has passed; a fetch that finds the error result older than the
\* error ttl removes it and submits a call to the limiter.
C18_ErrorTtl ==
  [][ \A f \in Fetches : (pc[f] = "idle" /\ pc'[f] # "idle" /\ HasKey(cache, fkey'[f])) =>
        LET e == MapGet(cache, fkey'[f])
            limit == IF e.data.kind = "fetcherror" THEN ERROR_TTL ELSE CACHE_TTL
            served == pc'[f] = "done" /\ ~wasApiCall'[f] /\ fresult'[f] = HitResult(e.data)
        IN /\ served <=> now - e.timestamp <= limit
           /\ ~served => /\ pc'[f] = "queued" /\ InQueue(f)'
                         /\ ~HasKey(cache', fkey'[f]) ]_vars

\* fetch 1 failed and its error result was stored; more than the error ttl
\* and less than the standard ttl later fetch 2 of the same day found it
\* expired, removed it and was queued
C18_Witness ==
  /\ pc[1] = "done" /\ fresult[1].kind = "fetcherror"
  /\ pc[2] = "queued" /\ execCount[2] = 0 /\ fkey[2] = fkey[1]
  /\ pc[3] = "idle" /\ cache = <<>>
  /\ now - StartTime > ERROR_TTL /\ now - StartTime < CACHE_TTL

\* ------------------------------------------- search-progress/route.ts
engineVars == <<limiterVars, cache, fetchVars, histVars, dayVars, batchVars, timerVars>>

\* the handler of POST /api/search-progress, on body u for session s
UpdateProgress(s, u) ==
  /\ progressCache' = [progressCache EXCEPT ![s] = ProgressOf(progressCache[s], u, now)]
  /\ lastPost' = [lastPost EXCEPT ![s] = u]

\* POST /api/search-progress by any client
ProgressPost(s, u) ==
  /\ UpdateProgress(s, u)
  /\ UNCHANGED <<now, ticks, engineVars, progressStorage, lastGet>>

\* GET /api/search-progress?sessionId=s
ProgressGet(s) ==
  /\ lastGet' =
       IF ~progressCache[s].present
         THEN [NoGet EXCEPT !.made = TRUE, !.sessionId = s, !.status = 404]
         ELSE [made |-> TRUE, sessionId |-> s, status |-> 200,
               currentDay |-> progressCache[s].currentDay,
               totalDays |-> progressCache[s].totalDays,
               isComplete |-> progressCache[s].isComplete,
               estimatedTimeRemaining |-> progressCache[s].estimatedTimeRemaining]
  /\ UNCHANGED <<now, ticks, engineVars, progressCache, progressStorage, lastPost>>

\* bound: clock steps in a run of a progress store
MaxProgressTicks == 1
\* one period of the sweeps, and a time longer than the longest window
ProgressTickSteps == {5 * 60 * 1000, 70 * 60 * 1000}

ProgressNext ==
  \/ \E d \in ProgressTickSteps : ticks < MaxProgressTicks /\ Tick(d)
  \/ \E s \in Sessions, u \in ProgressUpdates : ProgressPost(s, u)
  \/ \E s \in Sessions : ProgressGet(s)

SpecProgress == Init /\ [][ProgressNext]_vars

\* ------------------------------------- the progress store of route.ts
\* POST (route.ts:1142): the body is stored with the time of arrival
StoragePost(s, u) ==
  /\ progressStorage' = [progressStorage EXCEPT ![s] =
                           [present |-> TRUE, data |-> u, timestamp |-> now]]
  /\ UNCHANGED <<now, ticks, engineVars, progressCache, lastPost, lastGet>>

\* GET (route.ts:1093)
StorageGet(s) ==
  /\ lastGet' =
       IF ~progressStorage[s].present
         THEN [NoGet EXCEPT !.made = TRUE, !.sessionId = s, !.status = 200]
         ELSE [made |-> TRUE, sessionId |-> s, status |-> 200,
               currentDay |-> progressStorage[s].data.currentDay,
               totalDays |-> progressStorage[s].data.totalDays,
               isComplete |-> progressStorage[s].data.isComplete,
               estimatedTimeRemaining |-> EtaOfStored(progressStorage[s].data)]
  /\ UNCHANGED <<now, ticks, engineVars, progressCache, progressStorage, lastPost>>

\* the sweep of progressStorage fires (route.ts:1167): entries older than one
\* hour are deleted
StorageSweep ==
  /\ now >= sweepAt.progressStorage
  /\ progressStorage' = [s \in Sessions |->
                           IF progressStorage[s].present
                              /\ now - progressStorage[s].timestamp > 60 * 60 * 1000
                             THEN NoStored ELSE progressStorage[s]]
  /\ sweepAt' = [sweepAt EXCEPT !.progressStorage = @ + SweepPeriod]
  /\ UNCHANGED <<now, ticks, limiterVars, cache, fetchVars, histVars, dayVars, batchVars,
                 progressCache, lastPost, lastGet>>

StorageNext ==
  \/ StorageSweep
  \/ \E d \in ProgressTickSteps : ticks < MaxProgressTicks /\ Tick(d)
  \/ \E s \in Sessions, u \in ProgressUpdates : StoragePost(s, u)
  \/ \E s \in Sessions : StorageGet(s)

SpecStorage == Init /\ [][StorageNext]_vars

\* ------------------------------------------ properties of the progress stores
\* (remainingUncached * avgUncachedMs + remainingCached * avgCachedMs) / 1000,
\* rounded to the nearest integer
ClaimedEta(n) ==
  LET ms == n.uncachedDays * n.averageUncachedResponseTime
            + n.cachedDays * n.averageCachedResponseTime
  IN CHOOSE r \in 0..(ms \div 1000 + 1) : 2 * (1000 * r - ms) <= 1000 /\ 2 * (ms - 1000 * r) < 1000

\* C20, for the store of search-progress/route.ts: after an update with the
\* four numbers the stored estimate is the claimed one and not negative.
C20_EtaStored ==
  \A s \in Sessions :
    (progressCache[s].present /\ lastPost[s].hasNumbers) =>
      /\ progressCache[s].estimatedTimeRemaining = ClaimedEta(lastPost[s].numbers)
      /\ progressCache[s].estimatedTimeRemaining >= 0

\* C20: the estimate a progress store holds or reports for a session after
\* an update with the four numbers is the claimed one and not negative.
C20_EtaEverywhere ==
  /\ C20_EtaStored
  /\ (lastGet.made /\ lastGet.sessionId \in Sessions) =>
       LET e == progressStorage[lastGet.sessionId]
       IN (e.present /\ e.data.hasNumbers /\ lastGet.status = 200 /\ lastGet.currentDay = e.data.currentDay
           /\ lastGet.isComplete = e.data.isComplete) =>
            /\ lastGet.estimatedTimeRemaining = ClaimedEta(e.data.numbers)
            /\ lastGet.estimatedTimeRemaining >= 0

\* --------------------------------------- the batch: POST /api/search-prices
\* the two handlers: route.ts (one day after the other) and part_000 (all
\* days dispatched at once)
BatchVersions == {"sequential", "parallel"}
\* bound: days of a batch
MaxBatchDays == 2
\* bound: clock advances while a batch is followed
MaxBatchTicks == 2
\* bound: rate-limit rejections the upstream hands out to a batch
MaxBatchRateLimitHits == 2

\* the request body: start / ziel present, both stations resolved by
\* searchBahnhof, dayLimit (or the length of tage)
BatchRequests ==
  [start : BOOLEAN, ziel : BOOLEAN, stationsFound : BOOLEAN, sessionId : {1},
   dayLimit : 1..MaxBatchDays, version : BatchVersions]

\* the status the handler answers with before any per-day work
Precondition_stationsUnchecked(req) == IF ~req.start \/ ~req.ziel THEN 400 ELSE 200
Precondition(req) ==
  IF ~req.start \/ ~req.ziel THEN 400
  ELSE IF ~req.stationsFound THEN 404
  ELSE 200

\* the fetch that serves day d of the batch; the cache key of day d is d
FetchOfDay(d) == batch.base + d

\* !!cachedEntry && Date.now() - cachedEntry.timestamp <= cachedEntry.ttl
IsCachedProbe(c, k, t) == HasKey(c, k) /\ ~Expired(MapGet(c, k), t)

\* the body updateProgress posts; the moving averages stay at their seeds
BatchUpdate(currentDay, totalDays, isComplete, hasNumbers, uncachedDays, cachedDays) ==
  [currentDay |-> currentDay, totalDays |-> totalDays, isComplete |-> isComplete,
   hasNumbers |-> hasNumbers,
   numbers |-> IF hasNumbers
                 THEN [uncachedDays |-> uncachedDays, cachedDays |-> cachedDays,
                       averageUncachedResponseTime |-> 2000,
                       averageCachedResponseTime |-> 100]
                 ELSE NoNumbers]

\* POST up to the first getBestPrice: the precondition checks, maxDays, the
\* cache status of every day, the initial progress update
BatchStart(req) ==
  /\ batch.phase \in {"none", "rejected"}
  /\ LET base == Cardinality({f \in Fetches : pc[f] # "idle"})
         maxDays == req.dayLimit
         isCached == [d \in 1..maxDays |-> IsCachedProbe(cache, d, now)]
         cachedDays == Cardinality({d \in 1..maxDays : isCached[d]})
     IN IF Precondition(req) # 200
          THEN /\ batch' = [NoBatch EXCEPT !.phase = "rejected", !.status = Precondition(req),
                                           !.request = req]
               /\ UNCHANGED <<cache, progressCache, lastPost>>
          ELSE /\ maxDays <= NumFetches - base
               /\ batch' = [NoBatch EXCEPT !.phase = "running", !.status = 200,
                                           !.request = req,
                                           !.version = req.version,
                                           !.sessionId = req.sessionId,
                                           !.maxDays = maxDays, !.base = base,
                                           !.isCached = isCached,
                                           !.totalUncachedDays = maxDays - cachedDays,
                                           !.totalCachedDays = cachedDays]
               \* part_000 probes with getCachedResult, which deletes expired entries
               /\ cache' = IF req.version = "parallel"
                             THEN SelectSeq(cache, LAMBDA e : ~(e.key \in 1..maxDays /\ Expired(e, now)))
                             ELSE cache
               /\ UpdateProgress(req.sessionId,
                                 BatchUpdate(0, maxDays, FALSE, TRUE, maxDays - cachedDays, cachedDays))
  /\ UNCHANGED <<now, ticks, limiterVars, fetchVars, histVars, timerVars, dayVars, progressStorage, lastGet,
                 cancelledSessions, lastCancel>>

\* a getBestPrice call of another request, before the batch arrives
EarlierCall(f, k) ==
  /\ batch.phase = "none"
  /\ f = 1
  /\ GetBestPrice(f, k)

\* the batch calls getBestPrice for day d: route.ts after the previous day is
\* processed, part_000 for every day in turn
BatchCall(d) ==
  /\ batch.phase = "running"
  /\ d \in 1..batch.maxDays
  /\ batch.version = "sequential" => batch.completedRequests = d - 1
  /\ GetBestPrice(FetchOfDay(d), d)

\* if (dayResponse.result) Object.assign(results, dayResponse.result)
Merge_pricedOnly(results, d, r) ==
  IF r.kind = "priced" THEN [results EXCEPT ![d] = r.kind] ELSE results
Merge(results, d, r) ==
  IF r.kind # "none" THEN [results EXCEPT ![d] = r.kind] ELSE results

\* the moving average the duration of a day's fetch goes into
UpdatedAverage(isCached) == IF isCached THEN "cached" ELSE "uncached"

\* the day's getBestPrice has returned: route.ts:994-1026 (and the update
\* before the next call, which carries the same numbers), part_000:239-279
ProcessResultPosting(d, awaited) ==
  /\ batch.phase = "running"
  /\ d \in 1..batch.maxDays
  /\ d \notin batch.processed
  /\ pc[FetchOfDay(d)] = "done"
  /\ IF batch.version = "sequential"
       THEN d = batch.completedRequests + 1
       ELSE \A e \in 1..batch.maxDays : pc[FetchOfDay(e)] # "idle"
  /\ LET completed == batch.completedRequests + 1
         uncachedLeft == IF batch.isCached[d] THEN batch.totalUncachedDays
                         ELSE batch.totalUncachedDays - 1
         cachedLeft == IF batch.isCached[d] THEN batch.totalCachedDays - 1
                       ELSE batch.totalCachedDays
     IN IF batch.version = "sequential"
          THEN /\ batch' = [batch EXCEPT !.completedRequests = completed,
                                         !.processed = @ \cup {d},
                                         !.results = Merge(@, d, fresult[FetchOfDay(d)]),
                                         !.averaged[d] = UpdatedAverage(batch.isCached[d]),
                                         !.totalUncachedDays = uncachedLeft,
                                         !.totalCachedDays = cachedLeft]
               /\ UpdateProgress(batch.sessionId,
                                 BatchUpdate(completed, batch.maxDays, FALSE, TRUE,
                                             uncachedLeft, cachedLeft))
          ELSE LET update == BatchUpdate(completed, batch.maxDays, FALSE, TRUE,
                                         Max(0, batch.totalUncachedDays - completed),
                                         Max(0, batch.totalCachedDays - completed))
               IN /\ batch' = [batch EXCEPT !.completedRequests = completed,
                                            !.processed = @ \cup {d},
                                            !.results = Merge(@, d, fresult[FetchOfDay(d)]),
                                            !.averaged[d] = UpdatedAverage(batch.isCached[d]),
                                            !.inFlight = IF awaited THEN @ ELSE @ \cup {update}]
                  /\ IF awaited THEN UpdateProgress(batch.sessionId, update)
                                ELSE UNCHANGED <<progressCache, lastPost>>
  /\ UNCHANGED <<now, ticks, limiterVars, cache, fetchVars, histVars, timerVars, dayVars, progressStorage,
                 lastGet, cancelledSessions, lastCancel>>

\* the same with every update arriving at the store as it is sent
ProcessResult(d) == ProcessResultPosting(d, TRUE)

\* every day is processed and every update is answered: the final progress
\* update and the response
BatchFinal ==
  /\ batch.phase = "running"
  /\ batch.inFlight = {}
  /\ batch.completedRequests = batch.maxDays
  /\ batch' = [batch EXCEPT !.phase = "complete"]
  /\ UpdateProgress(batch.sessionId,
                    BatchUpdate(batch.maxDays, batch.maxDays, TRUE,
                                batch.version = "parallel", 0, 0))
  /\ UNCHANGED <<now, ticks, limiterVars, cache, fetchVars, histVars, timerVars, dayVars, progressStorage,
                 lastGet, cancelledSessions, lastCancel>>

\* POST /api/search-prices/cancel-search for the session of the running batch
CancelSession_restart(s) ==
  /\ cancelledSessions' =
       {c \in cancelledSessions : c.sessionId # s}
       \cup {[sessionId |-> s, cleanupAt |-> now + 5 * 60 * 1000]}
  /\ lastCancel' = [made |-> TRUE, method |-> "POST", sessionId |-> s, isCancelled |-> TRUE,
                    wasAlreadyCancelled |-> \E c \in cancelledSessions : c.sessionId = s]
  /\ UNCHANGED <<now, ticks, limiterVars, cache, fetchVars, histVars, timerVars, dayVars, progressVars, batch>>
\* the handler of POST /api/search-prices/cancel-search for session s
CancelSession(s) ==
  /\ cancelledSessions' =
       IF \E c \in cancelledSessions : c.sessionId = s
         THEN cancelledSessions
         ELSE cancelledSessions \cup {[sessionId |-> s, cleanupAt |-> now + 5 * 60 * 1000]}
  /\ lastCancel' = [made |-> TRUE, method |-> "POST", sessionId |-> s, isCancelled |-> TRUE,
                    wasAlreadyCancelled |-> \E c \in cancelledSessions : c.sessionId = s]
  /\ UNCHANGED <<now, ticks, limiterVars, cache, fetchVars, histVars, timerVars, dayVars, progressVars, batch>>

CancelPost(s) ==
  /\ batch.phase = "running"
  /\ s = batch.sessionId
  /\ CancelSession(s)

\* GET /api/search-prices/cancel-search?sessionId=s
CancelGet(s) ==
  /\ lastCancel' = [made |-> TRUE, method |-> "GET", sessionId |-> s,
                    isCancelled |-> \E c \in cancelledSessions : c.sessionId = s,
                    wasAlreadyCancelled |-> FALSE]
  /\ UNCHANGED <<now, ticks, limiterVars, cache, fetchVars, histVars, timerVars, dayVars, progressVars, batch,
                 cancelledSessions>>

\* the cleanup timeout of a cancellation fires
CancelCleanup(c) ==
  /\ c \in cancelledSessions
  /\ now >= c.cleanupAt
  /\ cancelledSessions' = cancelledSessions \ {c}
  /\ UNCHANGED <<now, ticks, limiterVars, cache, fetchVars, histVars, timerVars, dayVars, progressVars, batch,
                 lastCancel>>

BatchTickSteps == {2000, CACHE_TTL}

\* the answers of the upstream offered to a batch
BatchOutcomes == { o \in Outcomes : o.body.kind \in {"intervalle", "noprice", "none"} }

BatchNext ==
  \/ \E d \in BatchTickSteps : ticks < MaxBatchTicks /\ Tick(d)
  \/ \E req \in BatchRequests : BatchStart(req)
  \/ \E f \in Fetches, k \in Keys : EarlierCall(f, k)
  \/ \E d \in Fetches : BatchCall(d)
  \/ ProcessNextRequest
  \/ \E f \in Fetches, o \in BatchOutcomes :
        /\ o.ok \/ rateLimitHits < MaxBatchRateLimitHits
        /\ ExecuteRequestWithRetry(f, o)
  \/ \E t \in retryTimers : RequeueAfterBackoff(t)
  \/ \E d \in Fetches : ProcessResult(d)
  \/ BatchFinal
  \/ \E s \in Sessions : CancelPost(s)
  \/ \E c \in cancelledSessions : CancelCleanup(c)

SpecBatch == Init /\ [][BatchNext]_vars

\* ------------------------------------------------ properties of the batch
Days == 1..batch.maxDays
Placeholders == {"noprice", "nointervalle", "fetcherror", "parseerror"}
Cancelled(s) == \E c \in cancelledSessions : c.sessionId = s
TransportFailure(f) == settlement[f] = "rejected" /\ ~IsRateLimitError(lastMsg[f])

FailsNow(f) ==
  /\ pc[f] = "running" /\ pc'[f] = "done"
  /\ settlement'[f] = "rejected" /\ ~IsRateLimitError(lastMsg'[f])

OthersUntouched ==
  \A f \in Fetches :
    FailsNow(f) =>
      /\ \A i \in 1..Len(cache) :
           cache[i].key # fkey[f] => \E j \in 1..Len(cache') : cache'[j] = cache[i]
      /\ \A g \in Fetches \ {f} : fresult'[g] = fresult[g] /\ pc'[g] = pc[g]
      /\ batch' = batch

OwnOutcomeDecides ==
  \A d \in Days :
    d \in batch.processed =>
      /\ batch.results[d] = fresult[FetchOfDay(d)].kind
      /\ TransportFailure(FetchOfDay(d)) => batch.results[d] = "fetcherror"

\* C14: a day whose upstream call fails with a transport error gets the
\* error placeholder; the failure changes no other day's result, and it
\* neither removes nor alters a cache entry of another day.
C14_FailureIsolated == []OwnOutcomeDecides /\ [][OthersUntouched]_vars

\* the batch is processed with day 1 priced and cached and day 2 failed
C14_Witness ==
  /\ batch.phase = "complete" /\ batch.maxDays = 2
  /\ batch.results[1] = "priced" /\ batch.results[2] = "fetcherror"
  /\ TransportFailure(FetchOfDay(2))
  /\ HasKey(cache, 1) /\ MapGet(cache, 1).data.kind = "intervals"

\* C16: while the session of the batch is flagged as cancelled, no call of
\* the batch is submitted to the queue and no queued call of it is started.
C16_NoCallAfterCancel ==
  [][ (batch.phase = "running" /\ Cancelled(batch.sessionId)) =>
        \A d \in Days :
          /\ pc[FetchOfDay(d)] = "idle" => pc'[FetchOfDay(d)] \in {"idle", "done"}
          /\ pc[FetchOfDay(d)] \in {"queued", "backoff"} => pc'[FetchOfDay(d)] # "running" ]_vars

Rejected(req) == ~req.start \/ ~req.ziel \/ ~req.stationsFound

RejectedWhenUnmet ==
  batch.phase # "none" =>
    /\ batch.phase = "rejected" <=> Rejected(batch.request)
    /\ batch.phase = "rejected" =>
         batch.status = IF ~batch.request.start \/ ~batch.request.ziel THEN 400 ELSE 404

NoWorkOnRejection ==
  (batch'.phase = "rejected" /\ batch' # batch) =>
    UNCHANGED <<limiterVars, cache, fetchVars, histVars, progressVars>>

\* C17: a request without start or destination, or with an unresolved
\* station, is rejected, and the rejecting step touches neither the cache nor
\* the queue nor the progress store.
C17_FailsBeforeWork == []RejectedWhenUnmet /\ [][NoWorkOnRejection]_vars

\* a request with an unresolved station is rejected while the cache holds an
\* entry and no progress was ever written
C17_Witness ==
  /\ batch.phase = "rejected" /\ batch.status = 404
  /\ Len(cache) > 0
  /\ \A s \in Sessions : ~progressCache[s].present

\* ------------------------------------------- the batch, followed to its end
\* a time stored t, seen after d more milliseconds by a clock that stands
\* still; times further back than `floor` are not told apart
Earlier(t, d, floor) == Max(t - d, floor)

\* the clock advances by d: every time the limiter holds moves d into the
\* past.  The cache entries keep their timestamps: a batch looks a key up
\* before it writes it and never after (LookupsBeforeWrites).
LiveTick(d) ==
  /\ lastApiCallStart' = Earlier(lastApiCallStart, d, now - maxInterval)
  /\ processingTimer' = IF processingTimer = NoTimer THEN NoTimer
                        ELSE Earlier(processingTimer, d, now - maxInterval)
  /\ retryTimers' = { [req |-> t.req, fireAt |-> Earlier(t.fireAt, d, now - maxInterval)] :
                        t \in retryTimers }
  /\ UNCHANGED <<now, ticks, queue, minInterval, activeRequests, rateLimitHits,
                 successfulRequests, inflight, cache, fetchVars, histVars, auxVars>>

LiveTickStep == 2000

LiveNext ==
  \/ LiveTick(LiveTickStep)
  \/ \E req \in BatchRequests : BatchStart(req)
  \/ \E d \in Fetches : BatchCall(d)
  \/ ProcessNextRequest
  \/ \E f \in Fetches, o \in BatchOutcomes : UpstreamReturns(f, o)
  \/ \E t \in retryTimers : RequeueAfterBackoff(t)
  \/ \E d \in Fetches : ProcessResult(d)
  \/ BatchFinal

\* time passes, timers fire, every upstream invocation returns, the handler
\* runs on whenever it can
LiveFairness ==
  /\ WF_vars(LiveTick(LiveTickStep))
  /\ WF_vars(ProcessNextRequest)
  /\ WF_vars(\E t \in retryTimers : RequeueAfterBackoff(t))
  /\ WF_vars(\E f \in Fetches, o \in BatchOutcomes : UpstreamReturns(f, o))
  /\ WF_vars(\E d \in Fetches : BatchCall(d))
  /\ WF_vars(\E d \in Fetches : ProcessResult(d))
  /\ WF_vars(BatchFinal)

SpecLive == Init /\ [][LiveNext]_vars /\ LiveFairness

\* a day is looked up (by the probe of BatchStart, by getBestPrice) only
\* while the cache holds no entry for it
LookupsBeforeWrites ==
  [][ /\ (batch.phase # "running" /\ batch'.phase = "running") =>
           \A d \in 1..batch'.maxDays : ~HasKey(cache, d)
      /\ \A f \in Fetches : (pc[f] = "idle" /\ pc'[f] # "idle") => ~HasKey(cache, fkey'[f]) ]_vars

\* C15: every batch that has started emits the final progress update with
\* isComplete = true.
C15_EventuallyComplete ==
  [](batch.phase = "running" =>
       <>(batch.phase = "complete" /\ lastPost[batch.sessionId].isComplete))

\* ---------------------------------------------- properties, third part
\* C21: a read of the progress of a session no update was written for
\* answers NotFound (404) and leaves the stores without an entry for it.
C21_ReadOfUnknown ==
  /\ [](lastGet.made =>
          ((~progressCache[lastGet.sessionId].present
            /\ ~progressStorage[lastGet.sessionId].present) => lastGet.status = 404))
  /\ [][lastGet' # lastGet =>
          (progressCache' = progressCache /\ progressStorage' = progressStorage)]_vars

\* 2 s, 4 s, 8 s
ClaimedDelay(k) == IF k = 0 THEN 2000 ELSE IF k = 1 THEN 4000 ELSE 8000

\* C22: the k-th re-queue of a call (k = 0, 1, 2 rejections received before)
\* is delayed by min(2000 * 2^k, 8000) ms.
C22_BackoffGrows ==
  [][ \A f \in Fetches :
        (pc[f] = "running" /\ pc'[f] = "backoff" /\ rejections[f] <= 2) =>
          \E t \in retryTimers' :
            t.req = f /\ t.fireAt = now + ClaimedDelay(rejections[f]) ]_vars

\* the step in which the call of fetch f resolves and getBestPrice stores the
\* payload under a key the cache does not hold
StoresNewKey(f) ==
  /\ pc[f] = "running" /\ pc'[f] = "done"
  /\ settlement'[f] = "resolved" /\ fresult'[f].kind # "parseerror"
  /\ ~HasKey(cache, fkey[f])

\* C23: setCachedResult with a new key removes the entry inserted earliest,
\* and no other, when the cache holds MAX_CACHE_ENTRIES entries, and removes
\* nothing when it holds fewer; the new entry goes last.
C23_EvictsOldestOnly ==
  [][ \A f \in Fetches :
        StoresNewKey(f) =>
          /\ Len(cache) = MAX_CACHE_ENTRIES =>
               (Len(cache') = Len(cache) /\ SubSeq(cache', 1, Len(cache) - 1) = Tail(cache))
          /\ Len(cache) < MAX_CACHE_ENTRIES =>
               (Len(cache') = Len(cache) + 1 /\ SubSeq(cache', 1, Len(cache)) = cache)
          /\ cache'[Len(cache')].key = fkey[f] ]_vars

\* the cache is full and the entry of a priced fetch is gone before any
\* entry can have expired
C23_Witness ==
  /\ now - StartTime < CACHE_TTL /\ Len(cache) = MAX_CACHE_ENTRIES
  /\ \E f \in Fetches :
       settlement[f] = "resolved" /\ fresult[f].kind = "priced" /\ ~HasKey(cache, fkey[f])

\* ------------------------------------------- the fingerprints of a request
\* POST builds the key of one day twice: for the probe and, through
\* getBestPrice, for the fetch
Classify(req) ==
  /\ fingerprints' = [made |-> TRUE, request |-> req, maxDays |-> MaxDaysOf(req),
                      probe |-> ProbeKey(req), fetch |-> FetchKey(req)]
  /\ UNCHANGED <<now, ticks, limiterVars, cache, fetchVars, histVars, timerVars, dayCall, origin,
                 progressVars, batchVars>>

\* the request bodies: route.ts reads dayLimit only, part_000 the list tage
\* (given by its length) before dayLimit
KeyNext ==
  /\ ~fingerprints.made
  /\ \E req \in [date : Keys, maximaleUmstiege : {"", "0", "1"},
                 schnelleVerbindungen : FlagValues,
                 nurDeutschlandTicketVerbindungen : FlagValues,
                 dayLimit : DayLimitValues, tage : 0..MaxDayLimit, version : BatchVersions] :
       /\ req.version = "sequential" => req.tage = 0
       /\ Classify(req)

SpecKey == Init /\ [][KeyNext]_vars

\* C24: the key probed by the pre-classification is the key the fetch reads
\* and writes, component by component, for every representation of the flags.
C24_SameFingerprint ==
  fingerprints.made => fingerprints.probe = fingerprints.fetch

\* ---------------------------------------------- properties, the day's times
\* the result carries price, times and info of interval iv of the response
DescribedBy(result, iv) ==
  /\ HasPreisAndLegs(iv)
  /\ iv.preis = result.preis
  /\ result.abfahrtsZeitpunkt = iv.legs[1].abfahrtsZeitpunkt
  /\ result.ankunftsZeitpunkt = iv.legs[Len(iv.legs)].ankunftsZeitpunkt
  /\ result.info = IntervalRecord(iv).info

\* C25: departure, arrival and info returned for a day belong to one interval
\* of the response that passes the requested filter and has the returned
\* price, departure from its first leg and arrival from its last leg; the
\* cache-hit path returns the times the cache-miss path returns for the same
\* intervals and filter.
C25_TimesOfTheCheapest ==
  /\ (dayCall.made /\ ResponseOfLastCall.ok /\ ResponseOfLastCall.kind = "intervalle"
      /\ dayCall.result.preis # 0) =>
       \E i \in 1..Len(ResponseOfLastCall.intervalle) :
         /\ KeepByTime(ResponseOfLastCall.intervalle[i], dayCall.abfahrtAb, dayCall.ankunftBis)
         /\ DescribedBy(dayCall.result, ResponseOfLastCall.intervalle[i])
  /\ HitOnIntervals =>
       /\ dayCall.result.abfahrtsZeitpunkt = FreshForLastCall.abfahrtsZeitpunkt
       /\ dayCall.result.ankunftsZeitpunkt = FreshForLastCall.ankunftsZeitpunkt

\* the last arrival of iv falls on another day than its first departure
Overnight(iv) ==
  \/ iv.legs[Len(iv.legs)].ankunftsZeitpunkt < iv.legs[1].abfahrtsZeitpunkt
  \/ DateOf(iv.legs[Len(iv.legs)].ankunftsZeitpunkt) # DateOf(iv.legs[1].abfahrtsZeitpunkt)
DepartsInTime(iv, abfahrtAb) ==
  abfahrtAb = NoFilter \/ TimeOfDay(iv.legs[1].abfahrtsZeitpunkt) >= abfahrtAb
ArrivesInTime(iv, ankunftBis) ==
  ankunftBis = NoFilter \/ TimeOfDay(iv.legs[Len(iv.legs)].ankunftsZeitpunkt) <= ankunftBis
\* the priced connections of the response are in the returned list exactly
\* when Retained says so
ReturnedExactly(Retained(_, _, _)) ==
  (dayCall.made /\ ResponseOfLastCall.ok /\ ResponseOfLastCall.kind = "intervalle") =>
    \A i \in 1..Len(ResponseOfLastCall.intervalle) :
      LET iv == ResponseOfLastCall.intervalle[i]
      IN HasPreisAndLegs(iv) =>
           (Holds(dayCall.result.allIntervals, iv)
              <=> Retained(iv, dayCall.abfahrtAb, dayCall.ankunftBis))
ByTimeOfDay(iv, abfahrtAb, ankunftBis) ==
  DepartsInTime(iv, abfahrtAb) /\ ArrivesInTime(iv, ankunftBis)
ByTimeOfDayUnlessOvernight(iv, abfahrtAb, ankunftBis) ==
  /\ DepartsInTime(iv, abfahrtAb)
  /\ ArrivesInTime(iv, ankunftBis)
  /\ ankunftBis # NoFilter => ~Overnight(iv)

\* C26 as stated: an interval is retained exactly when the time-of-day of its
\* first departure is not earlier than abfahrtAb and the time-of-day of its
\* last arrival is not later than ankunftBis, overnight connections included.
C26_OvernightRetained == ReturnedExactly(ByTimeOfDay)

\* C26 (amended): an interval is retained exactly when the time-of-day of its
\* first departure is not earlier than abfahrtAb (when supplied) and the
\* time-of-day of its last arrival is not later than ankunftBis (when
\* supplied); an overnight connection counts as arriving a day after the
\* cutoff, so with ankunftBis supplied it is never retained.
C26_OvernightLate == ReturnedExactly(ByTimeOfDayUnlessOvernight)

\* a call with ankunftBis whose response has a priced overnight connection
\* arriving at a clock time within the cutoff; the result leaves it out
C26_Witness ==
  /\ dayCall.made /\ dayCall.ankunftBis # NoFilter
  /\ ResponseOfLastCall.ok /\ ResponseOfLastCall.kind = "intervalle"
  /\ \E i \in 1..Len(ResponseOfLastCall.intervalle) :
       LET iv == ResponseOfLastCall.intervalle[i]
       IN /\ HasPreisAndLegs(iv) /\ Overnight(iv)
          /\ ByTimeOfDay(iv, dayCall.abfahrtAb, dayCall.ankunftBis)
          /\ ~Holds(dayCall.result.allIntervals, iv)

\* ------------------------------------------ properties, the remaining days
\* days of the batch pre-classified as cached (or not) and not yet processed
Unsettled(cached) == {d \in Days : d \notin batch.processed /\ batch.isCached[d] = cached}

\* C27: every per-day progress update of a batch reports as remaining
\* uncached the pre-classified misses not yet settled and as remaining cached
\* the pre-classified hits not yet settled; the two add up to totalDays minus
\* completedDays.
C27_RemainingByClass ==
  (batch.phase = "running" /\ batch.completedRequests >= 1) =>
    LET update == lastPost[batch.sessionId]
    IN /\ update.numbers.uncachedDays = Cardinality(Unsettled(FALSE))
       /\ update.numbers.cachedDays = Cardinality(Unsettled(TRUE))
       /\ update.numbers.uncachedDays + update.numbers.cachedDays
            = update.totalDays - update.currentDay

\* C28: each settled day updates exactly one of the two moving averages, the
\* uncached one exactly when the day's fetch went through the admission queue,
\* also when the entry expired or appeared after the pre-classification.
C28_AverageOfTheClass ==
  \A d \in batch.processed :
    /\ batch.averaged[d] \in {"cached", "uncached"}
    /\ batch.averaged[d] = "uncached" <=> wasApiCall[FetchOfDay(d)]

\* ------------------------------------------- properties, the life of a call
\* the call was submitted to the limiter and its promise is settled
Settled(f) == pc[f] = "done" /\ settlement[f] # "pending"
InBackoff(f) == \E t \in retryTimers : t.req = f
\* a settled call was settled once and is held nowhere in the limiter; a call
\* on its way is not settled
SettledCallsAreGone ==
  \A f \in Fetches :
    /\ Settled(f) => settleCount[f] = 1 /\ ~InQueue(f) /\ ~InBackoff(f) /\ f \notin inflight
    /\ pc[f] \in {"queued", "running", "backoff"} =>
         settleCount[f] = 0 /\ settlement[f] = "pending"
\* the edges a call takes in one step, and the step that settles it
CallMoves ==
  \A f \in Fetches :
    /\ pc[f] = "queued" => pc'[f] \in {"queued", "running"}
    /\ pc[f] = "running" => pc'[f] \in {"running", "backoff", "done"}
    /\ pc[f] = "backoff" => pc'[f] \in {"backoff", "queued"}
    /\ pc[f] = "done" =>
         pc'[f] = "done" /\ settlement'[f] = settlement[f] /\ settleCount'[f] = settleCount[f]
    /\ (settleCount'[f] # settleCount[f] \/ settlement'[f] # settlement[f]) <=>
         (pc[f] = "running" /\ pc'[f] = "done")
    /\ (pc[f] = "running" /\ pc'[f] = "done") =>
         /\ settleCount'[f] = settleCount[f] + 1
         /\ settlement'[f] \in {"resolved", "rejected"}

\* C29: a call submitted to the limiter moves only along queued -> running ->
\* (succeeded | backoff -> queued | failed); succeeded and failed are
\* absorbing, the promise is settled exactly once, on entering one of them,
\* and from then on the call is neither queued nor waiting for a backoff.
C29_CallLifecycle == []SettledCallsAreGone /\ [][CallMoves]_vars

\* a call that was rejected, waited, was queued again and then settled,
\* while another call is still queued
C29_Witness ==
  \E f \in Fetches, g \in Fetches :
    /\ Settled(f) /\ rejections[f] >= 1 /\ execCount[f] >= 2
    /\ pc[g] = "queued"

\* ------------------------------------- properties, the origin of a result
\* the cache holds an entry for key k whose ttl has not passed
LiveEntry(k) == \E i \in 1..Len(cache) : cache[i].key = k /\ now - cache[i].timestamp <= cache[i].ttl
\* a fetch that has returned reports an upstream call exactly when it went
\* through the admission queue
ReportsItsOrigin ==
  \A f \in Fetches :
    /\ pc[f] = "done" => (wasApiCall[f] <=> settlement[f] # "pending")
    /\ pc[f] = "done" => (wasApiCall[f] <=> execCount[f] >= 1)
\* a fetch returns without the queue exactly when its key has a live entry,
\* and then the limiter is left alone
HitsLeaveLimiterAlone ==
  \A f \in Fetches :
    /\ (pc[f] = "idle" /\ pc'[f] = "done") =>
         /\ LiveEntry(fkey'[f])
         /\ ~wasApiCall'[f]
         /\ fresult'[f] = HitResult(MapGet(cache, fkey'[f]).data)
         /\ UNCHANGED <<queue, activeRequests, lastApiCallStart, minInterval>>
    /\ (pc[f] = "idle" /\ pc'[f] = "queued") => ~LiveEntry(fkey'[f]) /\ InQueue(f)'
    /\ (pc[f] = "running" /\ pc'[f] = "done") => wasApiCall'[f]

\* C30: getBestPrice returns wasApiCall = true exactly when it submitted a
\* call to the admission queue, whatever that call ended with, and false
\* exactly when the result came from a live cache entry; a fetch served from
\* the cache leaves queue, active count, last start time and interval as
\* they were.
C30_OriginReported == []ReportsItsOrigin /\ [][HitsLeaveLimiterAlone]_vars

\* a fetch that could not be parsed, a fetch that failed and a fetch served
\* from the cache have all returned
C30_Witness ==
  \E f, g, h \in Fetches :
    /\ pc[f] = "done" /\ fresult[f].kind = "parseerror" /\ wasApiCall[f]
    /\ pc[g] = "done" /\ fresult[g].kind = "fetcherror" /\ wasApiCall[g]
    /\ pc[h] = "done" /\ ~wasApiCall[h]

\* ------------------------------------------------- the sweep of the cache
\* bound: clock advances while the sweeps are followed
MaxSweepTicks == 14
\* the clock advances to the moment the interval timer is due
SweepTick ==
  /\ ticks < MaxSweepTicks
  /\ now < sweepAt.cleanupCache
  /\ now' = sweepAt.cleanupCache
  /\ ticks' = ticks + 1
  /\ UNCHANGED <<limiterVars, cache, fetchVars, histVars, auxVars>>

\* setInterval(cleanupCache, 5 * 60 * 1000) fires
CleanupCacheTimer ==
  /\ now >= sweepAt.cleanupCache
  /\ cache' = CleanupCache(cache, now)
  /\ sweepAt' = [sweepAt EXCEPT !.cleanupCache = @ + SweepPeriod]
  /\ UNCHANGED <<now, ticks, limiterVars, fetchVars, histVars, dayVars, progressVars, batchVars>>

\* the upstream answers without a price or fails with a transport error
SweepNext ==
  \/ SweepTick
  \/ \E f \in Fetches, k \in Keys : GetBestPrice(f, k)
  \/ ProcessNextRequest
  \/ \E f \in Fetches, o \in {x \in Outcomes : x.body.kind = "noprice" \/ x.msg = <<"fetch failed">>} :
        ExecuteRequestWithRetry(f, o)
  \/ CleanupCacheTimer

SpecSweep == Init /\ [][SweepNext]_vars

\* ------------------------------------------------ properties of the sweep
\* age of entry e at the present moment
Age(e) == now - e.timestamp
\* no entry outlives its own ttl by more than one period of the timer
SweptInTime == \A i \in 1..Len(cache) : Age(cache[i]) <= cache[i].ttl + SweepPeriod
\* a firing of the timer keeps the entries within their ttl, in their order,
\* and drops the rest
SweepIsExact ==
  sweepAt'.cleanupCache # sweepAt.cleanupCache =>
    /\ cache' = SelectSeq(cache, LAMBDA e : now - e.timestamp <= e.ttl)
    /\ \A i \in 1..Len(cache) : cache[i].ttl \in {ERROR_TTL, CACHE_TTL}
    /\ sweepAt'.cleanupCache = sweepAt.cleanupCache + 5 * 60 * 1000

\* C31: a sweep removes every entry whose age exceeds its own ttl (60 s for
\* error entries, 60 min otherwise) and no other entry; it runs every five
\* minutes whether or not a request arrives, so no entry stays longer than
\* its ttl plus one period.
C31_SweepByOwnTtl == []SweptInTime /\ [][SweepIsExact]_vars

\* an entry of 60 minutes ttl that has passed several sweeps, while the
\* error entry of a fetch nobody repeated is gone though the cache never filled
C31_Witness ==
  /\ \E i \in 1..Len(cache) : cache[i].ttl = CACHE_TTL /\ Age(cache[i]) >= 2 * SweepPeriod
  /\ \E f \in Fetches :
       /\ pc[f] = "done" /\ wasApiCall[f] /\ fresult[f].kind = "fetcherror"
       /\ ~HasKey(cache, fkey[f])
       /\ \A g \in Fetches \ {f} : fkey[g] # fkey[f]
       /\ \E g \in Fetches : pc[g] = "idle"

\* ----------------------------------- properties, the sweeps of the stores
\* the longest inactivity window of the sweeps (route.ts:1169)
InactivityWindow == 60 * 60 * 1000

\* C32: a progress entry without update for longer than the inactivity
\* window is removed by the next periodic sweep, so no entry of the store the
\* batch reports to is older than the window plus one period of the sweep.
C32_StaleProgressSwept ==
  \A s \in Sessions :
    progressCache[s].present =>
      now - progressCache[s].lastUpdate <= InactivityWindow + SweepPeriod

\* ------------------------------------------ properties, the size of a batch
\* the request names its days by dayLimit
ByDayLimit == fingerprints.request.version = "sequential" \/ fingerprints.request.tage = 0

\* C33: a batch processes at most 30 days whatever the request carries: a
\* dayLimit is clamped to 1..30 and a list of dates is cut to its first 30.
C33_AtMostThirtyDays ==
  fingerprints.made =>
    /\ DaysProcessed(fingerprints.maxDays) <= 30
    /\ ByDayLimit => ~fingerprints.maxDays.isNaN /\ fingerprints.maxDays.n \in 1..30
    /\ ~ByDayLimit => fingerprints.maxDays = Num(Min(fingerprints.request.tage, 30))

\* ------------------------------------- properties, the places of a call
\* the number of places of the limiter that hold call f
TimesQueued(f) == Cardinality({i \in 1..Len(queue) : queue[i] = f})
Places(f) ==
  TimesQueued(f) + (IF f \in inflight THEN 1 ELSE 0)
  + Cardinality({t \in retryTimers : t.req = f})

\* C34: no submitted call is lost or duplicated inside the limiter: a call
\* whose promise is not settled is in exactly one of the queue, the running
\* calls and the pending backoff timers, and in the queue at most once.
C34_ExactlyOnePlace ==
  \A f \in Fetches :
    /\ (pc[f] \in {"queued", "running", "backoff"} /\ settlement[f] = "pending") => Places(f) = 1
    /\ TimesQueued(f) <= 1
    /\ pc[f] \in {"idle", "done"} => Places(f) = 0

\* three unsettled calls, one in each place
C34_Witness ==
  \E f, g, h \in Fetches :
    /\ TimesQueued(f) = 1 /\ g \in inflight /\ InBackoff(h)
    /\ settlement[f] = "pending" /\ settlement[g] = "pending" /\ settlement[h] = "pending"

\* ------------------------------------- the batch and its updates on the way
\* processResult: route.ts awaits each update before the next day, part_000
\* runs processResult for all days at once, so that updates overlap
PostsResult(d) == ProcessResultPosting(d, batch.version = "sequential")

\* an update on the way reaches POST /api/search-progress
ProgressArrives(u) ==
  /\ u \in batch.inFlight
  /\ UpdateProgress(batch.sessionId, u)
  /\ batch' = [batch EXCEPT !.inFlight = @ \ {u}]
  /\ UNCHANGED <<now, ticks, limiterVars, cache, fetchVars, histVars, timerVars, dayVars,
                 progressStorage, lastGet, cancelledSessions, lastCancel>>

PostsNext ==
  \/ \E d \in BatchTickSteps : ticks < MaxBatchTicks /\ Tick(d)
  \/ \E req \in BatchRequests : BatchStart(req)
  \/ \E d \in Fetches : BatchCall(d)
  \/ ProcessNextRequest
  \/ \E f \in Fetches, o \in {x \in BatchOutcomes : x.ok} : ExecuteRequestWithRetry(f, o)
  \/ \E d \in Fetches : PostsResult(d)
  \/ \E u \in batch.inFlight : ProgressArrives(u)
  \/ BatchFinal
  \/ \E s \in Sessions : ProgressGet(s)

SpecPosts == Init /\ [][PostsNext]_vars

\* C35: within a batch that dispatches its days concurrently the progress
\* read for the session is monotonic: from one read to a later read
\* completedDays does not decrease and isComplete does not go back to false,
\* also when updates arrive at the store in another order than they were sent.
C35_MonotonicReads ==
  [][ (lastGet.made /\ lastGet'.made /\ lastGet.status = 200 /\ lastGet'.status = 200
       /\ lastGet'.sessionId = lastGet.sessionId) =>
        /\ lastGet'.currentDay >= lastGet.currentDay
        /\ lastGet.isComplete => lastGet'.isComplete ]_vars

\* ------------------------------------- properties, the cache under reads
\* fetch f returns in this step without having been queued
ServedFromCache(f) == pc[f] = "idle" /\ pc'[f] = "done"

\* C36: a cache hit changes nothing in the cache: the entry served keeps its
\* payload, timestamp, ttl and place in the eviction order, and so does every
\* other entry.
C36_HitLeavesCache ==
  [][ \A f \in Fetches :
        ServedFromCache(f) =>
          /\ Len(cache') = Len(cache)
          /\ \A i \in 1..Len(cache) :
               /\ cache'[i].key = cache[i].key
               /\ cache'[i].data = cache[i].data
               /\ cache'[i].timestamp = cache[i].timestamp
               /\ cache'[i].ttl = cache[i].ttl ]_vars

\* a fetch was served from the oldest of two entries some time after it was
\* stored, and the entry is still the oldest
C36_Witness ==
  \E f \in Fetches :
    /\ pc[f] = "done" /\ ~wasApiCall[f] /\ settlement[f] = "pending"
    /\ Len(cache) = 2 /\ cache[1].key = fkey[f]
    /\ \A g \in Fetches : g > f => pc[g] = "idle"
    /\ \E g \in Fetches : g < f /\ fkey[g] = cache[2].key /\ wasApiCall[g]
    /\ cache[1].timestamp < cache[2].timestamp
\* ------------------------------------------------ the cancel-search route
\* cancel-search/route.ts on its own: sessions are cancelled, asked for and
\* cleaned up by their timers while the clock advances
CancelLifetime == 5 * 60 * 1000

CancelNext ==
  \/ \E d \in {2000, CancelLifetime} : Tick(d)
  \/ \E s \in Sessions : CancelSession(s)
  \/ \E s \in Sessions : CancelGet(s)
  \/ \E c \in cancelledSessions : CancelCleanup(c)

SpecCancel == Init /\ [][CancelNext]_vars

\* at most one cancellation is kept per session, and its cleanup is never
\* later than five minutes from now
OneCancellationEach ==
  /\ \A c, e \in cancelledSessions : c.sessionId = e.sessionId => c = e
  /\ \A c \in cancelledSessions : c.cleanupAt <= now + CancelLifetime

\* a request is answered from the set as it stands: a read reports whether
\* the session is cancelled and changes nothing, a cancel of a cancelled
\* session says so and changes nothing, a first cancel adds the session with
\* a cleanup five minutes later
AnsweredFromTheSet ==
  lastCancel' # lastCancel =>
    LET s == lastCancel'.sessionId IN
      /\ lastCancel'.made
      /\ lastCancel'.method = "GET" =>
           /\ lastCancel'.isCancelled = Cancelled(s)
           /\ cancelledSessions' = cancelledSessions
      /\ lastCancel'.method = "POST" =>
           /\ lastCancel'.wasAlreadyCancelled = Cancelled(s)
           /\ cancelledSessions' =
                IF Cancelled(s) THEN cancelledSessions
                ELSE cancelledSessions \cup
                       {[sessionId |-> s, cleanupAt |-> now + CancelLifetime]}

\* a cancellation leaves the set only when its cleanup is due, and enters it
\* only by a cancel of its own session
OnlyItsOwnTimerRemoves ==
  /\ \A c \in cancelledSessions \ cancelledSessions' : now >= c.cleanupAt
  /\ \A c \in cancelledSessions' \ cancelledSessions :
       /\ lastCancel'.method = "POST"
       /\ lastCancel'.sessionId = c.sessionId
       /\ c.cleanupAt = now + CancelLifetime

\* C37: cancelling is idempotent: after a session is cancelled a read reports
\* it cancelled until the cleanup timer fires five minutes after that first
\* cancel; a second cancel in between reports that the session was already
\* cancelled and neither restarts nor postpones the cleanup; other sessions
\* are unaffected
C37_CancelIsIdempotent ==
  /\ [] OneCancellationEach
  /\ [][AnsweredFromTheSet /\ OnlyItsOwnTimerRemoves]_vars

\* a second cancel, some time after the first, was told that the session was
\* already cancelled, its cleanup is still the one of the first cancel, and
\* another session was cancelled later
C37_Witness ==
  /\ lastCancel.method = "POST"
  /\ lastCancel.wasAlreadyCancelled
  /\ \E c, e \in cancelledSessions :
       /\ c.sessionId = lastCancel.sessionId
       /\ c.cleanupAt < now + CancelLifetime
       /\ e.sessionId # c.sessionId
       /\ e.cleanupAt > c.cleanupAt
\* ------------------------------------------- failures that are no rejection
\* the message of a thrown error that names neither 429 nor Too Many Requests
OtherError(msg) ==
  /\ msg # <<>>
  /\ \A i \in 1..Len(msg) : msg[i] \notin {"429", "Too Many Requests"}

\* the execution of call f ends in this step with such an error
FailsOtherwise(f) ==
  /\ f \in inflight
  /\ f \notin inflight'
  /\ OtherError(lastMsg'[f])

\* C38: a call that fails with a non-rate-limit error leaves the pacing state
\* unchanged: minInterval, the count of successes since the last rejection
\* and the rate-limit hit counter are the same after the failure as before it
C38_FailureLeavesPacing ==
  [][\A f \in Fetches :
       FailsOtherwise(f) =>
         /\ minInterval' = minInterval
         /\ successfulRequests' = successfulRequests
         /\ rateLimitHits' = rateLimitHits
         /\ settlement'[f] = "rejected"]_vars

\* the third call failed with a transport error at its first execution, after
\* the first call had been rejected once (the only rejection so far) and the
\* second had succeeded: the pacing state it met, and left, was not the
\* initial one
C38_Witness ==
  /\ settlement[3] = "rejected" /\ OtherError(lastMsg[3]) /\ execCount[3] = 1
  /\ rejections[1] = 1 /\ rateLimitHits = 1
  /\ settlement[2] = "resolved" /\ rejections[2] = 0
  /\ minInterval > baseInterval
  /\ successfulRequests >= 1
\* ------------------------------------------------ the limiter never stalls
TimerPending == processingTimer # NoTimer
CallRunning == activeRequests > 0

\* no timer is pending while a call runs; a timer is pending whenever calls
\* wait and none runs
TimerWhenNeeded ==
  /\ CallRunning => ~TimerPending
  /\ (Len(queue) > 0 /\ ~CallRunning) => TimerPending

\* a pending timer is never joined by a second one: the field that holds it
\* is set only while it is empty (the passing of time moves a pending
\* timer's due time towards the past, and nothing else)
NeverASecondTimer ==
  (TimerPending /\ processingTimer' # NoTimer /\ processingTimer' # processingTimer) =>
    /\ processingTimer' < processingTimer
    /\ queue' = queue
    /\ activeRequests' = activeRequests
    /\ inflight' = inflight

\* every queued call is eventually started
QueuedIsStarted == \A f \in Fetches : (pc[f] = "queued") ~> (pc[f] = "running")

\* C39: the limiter never stalls: at most one processing timer is pending at
\* any time, no timer is pending while a call is running, and whenever the
\* queue is non-empty and no call is running a timer is pending; hence every
\* queued call is eventually started, provided every started execution returns
C39_NeverStalls ==
  /\ [] TimerWhenNeeded
  /\ [][NeverASecondTimer]_vars
  /\ QueuedIsStarted

\* a rejected call has been queued again behind a call that waits, no call
\* runs and the timer is pending
C39_Witness ==
  /\ Len(queue) >= 2
  /\ rejections[queue[Len(queue)]] > 0
  /\ ~CallRunning
  /\ TimerPending

====
